---- MODULE Spec2Model ----
(***************************************************************************)
(* Model of the trading engine of qhft-system (pkg/trading/engine.go), of   *)
(* the data source manager and the Polygon source (pkg/datasource) and of  *)
(* the watchlist (pkg/trading/watchlist.go).                               *)
(*                                                                         *)
(* State: the fields of BaseTradingEngine (enabled, limits, orders,        *)
(* positions, account, trades), the wall clock read by time.Now(), and for *)
(* every calling goroutine its position inside the engine method it runs.  *)
(* A critical section (from e.mu.Lock() to the deferred Unlock) is one     *)
(* action; the IsEnabled() call that precedes it takes and releases the    *)
(* read lock on its own and is therefore a separate step.                  *)
(*                                                                         *)
(* float64 values are modelled as exact rationals [n, d] in lowest terms   *)
(* (d > 0); rounding of IEEE arithmetic is not modelled.  Prices are       *)
(* counted in quarter dollars (150.25 is 601, 160.00 is 640, 153.50 is     *)
(* 614), quantities in shares.                                             *)
(***************************************************************************)
EXTENDS Integers, Sequences, FiniteSets, TLC

VARIABLES enabled, limits, orders, positions, account, trades,
          clock, nextSeq, lastFill, pc, call, last,
          mu, rlock, local, serial,
          dataSources, primary, gsd, hca, mlast,
          poly,
          items, scan, mon, direct,
          sms, strategies,
          calc,
          tl

\* BaseTradingEngine.mu: the goroutine holding the write lock (0 for none),
\* the goroutines holding the read lock, and the local variables of the
\* goroutines inside a critical section; serial is not a field of the
\* program: it is the engine state the completed SubmitOrder calls give when
\* applied one after another
lockVars == <<mu, rlock, local, serial>>

\* datasource.Manager: its fields, the running GetStockData and
\* HealthCheckAll calls, and what the last call returned
managerVars == <<dataSources, primary, gsd, hca, mlast>>

\* a PolygonDataSource with its running GetStockData call
polygonVars == <<poly>>

\* Watchlist: its items, the running ScanWatchlist call, the goroutine of
\* StartWatchlistMonitor with the ExecuteWatchlistItems call it makes, and a
\* second goroutine that calls ScanWatchlist and ExecuteWatchlistItems itself
watchlistVars == <<items, scan, mon, direct>>

\* Scanner: the running ScanMultipleSymbols call
scannerVars == <<sms, strategies>>

\* no function has been called
NoCalc == [op |-> "none"]

\* the call of a function of its arguments alone, with what it returned
calcVars == <<calc>>
loggerVars == <<tl>>

vars == <<enabled, limits, orders, positions, account, trades,
          clock, nextSeq, lastFill, pc, call, last,
          lockVars, managerVars, polygonVars, watchlistVars,
          scannerVars, calcVars, loggerVars>>

-----------------------------------------------------------------------------
(* Bounds of the model *)

\* number of orders the engine stores in one behaviour
MaxOrders == 3

\* number of orders the engine stores in one behaviour of concurrent callers
MaxConcurrentOrders == 2

\* number of orders the engine stores in one behaviour of the validation
MaxValidationOrders == 2

\* number of items the watchlist holds in one behaviour
MaxItems == 2

\* the time to which the clock of the watchlist runs
MaxTime == 1

\* number of ticks the ticker of StartWatchlistMonitor delivers
MaxCycles == 2

\* the calling goroutines
Threads == {1, 2}

\* number of symbols ScanMultipleSymbols is called with, to fill its pool
MaxSymbols == 11

\* number of symbols ScanMultipleSymbols is called with, of any outcome
MaxBatch == 3

\* number of trades the engine has recorded when GetTradeStats is called
MaxTrades == 3

\* the latest time at which one of these trades was opened
MaxOpenedAt == 2

\* number of bars MACD.Calculate is given
MaxBars == 5

\* number of calls of the trade logger that write an entry
MaxLogs == 3

\* the last day of the trade logger's clock
MaxDay == 2

\* number of ScanWatchlist calls of the goroutine beside the monitor
MaxDirectCalls == 1

\* number of symbols of a ScanMultipleSymbols call whose scans are followed
\* step by step, and number of indicators of a strategy
MaxScans == 2
MaxIndicators == 2

-----------------------------------------------------------------------------
(* float64 as exact rationals *)

Abs(i) == IF i < 0 THEN -i ELSE i

RECURSIVE GCD(_, _)
GCD(a, b) == IF b = 0 THEN a ELSE GCD(b, a % b)

Rat(n, d) ==
    LET s == IF d < 0 THEN -1 ELSE 1
        g == GCD(Abs(n), Abs(d))
    IN  [n |-> (s * n) \div g, d |-> (s * d) \div g]

F(i) == [n |-> i, d |-> 1]
FAdd(x, y) == Rat(x.n * y.d + y.n * x.d, x.d * y.d)
FSub(x, y) == Rat(x.n * y.d - y.n * x.d, x.d * y.d)
FMul(x, y) == Rat(x.n * y.n, x.d * y.d)
FDiv(x, y) == Rat(x.n * y.d, x.d * y.n)

-----------------------------------------------------------------------------
(* Constants of the program *)

ErrTradeDisabled      == "trading is disabled"
ErrInvalidSymbol      == "invalid symbol"
ErrInvalidQuantity    == "invalid quantity"
ErrInvalidPrice       == "invalid price"
ErrInvalidOrderType   == "invalid order type"
ErrInvalidOrderSide   == "invalid order side"
ErrOrderNotFound      == "order not found"
ErrTradeLimitExceeded == "trading limit exceeded"
\* the two errors the engine builds with fmt.Errorf and no sentinel
ErrNoPosition         == "no position found for symbol"
ErrCannotCancel       == "cannot cancel order with status"
\* a nil error
Nil == "nil"

OrderStatusPending   == "pending"
OrderStatusSubmitted == "submitted"
OrderStatusAccepted  == "accepted"
OrderStatusRejected  == "rejected"
OrderStatusFilled    == "filled"
OrderStatusPartial   == "partial"
OrderStatusCanceled  == "canceled"
OrderStatusExpired   == "expired"

OrderTypeMarket == "market"
OrderTypeLimit  == "limit"
OrderTypeStop   == "stop"

OrderSideBuy  == "buy"
OrderSideSell == "sell"

-----------------------------------------------------------------------------
(* Inputs *)

Symbols == {"AAPL", "MSFT"}

\* LastPrice values a quote can carry, in quarter dollars: 150.25 and 160.00
\* for AAPL, 150.25 for MSFT
Prices(symbol) == IF symbol = "AAPL" THEN {601, 640} ELSE {601}

\* what the quote lookup of a market order can yield: no primary source,
\* an error of GetRealTimeQuote, or a quote with a last price
NoPrimary  == "no primary data source set"
QuoteError == "quote error"
Quote(err, lastPrice) == [err |-> err, LastPrice |-> lastPrice]
QuoteOutcomes(symbol) ==
    {Quote(NoPrimary, 0), Quote(QuoteError, 0)}
        \cup {Quote(Nil, p) : p \in Prices(symbol)}

NoOrder == [ID |-> 0]
NoCall  == [op |-> "none"]
NoQuote == Quote("none", 0)
NoLast  == [t |-> 0, call |-> NoCall, err |-> Nil, order |-> NoOrder,
            quote |-> NoQuote]

Args(sym, qty, price, type, side) ==
    [op |-> "SubmitOrder", symbol |-> sym, quantity |-> qty, price |-> price,
     type |-> type, side |-> side]

\* arguments of SubmitOrder: market orders on both symbols
SubmitArgs ==
    { Args("AAPL", q, 0, OrderTypeMarket, sd) :
        q \in {50, 100}, sd \in {OrderSideBuy, OrderSideSell} }
    \cup
    { Args("MSFT", 50, 0, OrderTypeMarket, OrderSideBuy) }

\* arguments of the concurrent callers
ConcurrentArgs ==
    { Args("AAPL", 50, 0, OrderTypeMarket, OrderSideBuy),
      Args("MSFT", 50, 0, OrderTypeMarket, OrderSideBuy),
      Args("AAPL", 50, 0, OrderTypeMarket, OrderSideSell) }

\* order IDs CancelOrder is called with
CancelIDs == {0, 1}

\* quantities ClosePosition is called with: 0 asks for the whole position
CloseQuantities == {0}

\* arguments of SubmitOrder for the validation order: every combination of
\* a good and a bad value of each parameter
ValidationArgs ==
    { Args(s, q, p, ty, sd) :
        s \in {"", "AAPL"}, q \in {0, 50}, p \in {-1, 0},
        ty \in {OrderTypeMarket, OrderTypeLimit, "bogus"},
        sd \in {OrderSideBuy, "hold"} }

\* the TradingLimits the engine is constructed with: room for two positions,
\* or for one
TwoPositions == [MaxPositions |-> 2, MaxDailyTrades |-> 2]
OnePosition  == [MaxPositions |-> 1, MaxDailyTrades |-> 2]

\* TradingLimits values SetLimits is called with
LimitValues ==
    { [MaxPositions |-> m, MaxDailyTrades |-> 2] : m \in {0, 1, 2} }

-----------------------------------------------------------------------------
(* e.mu, a sync.RWMutex *)

\* e.mu.Lock() can return: no goroutine holds the lock for writing or reading
CanLock == mu = 0 /\ rlock = {}

\* e.mu.RLock() can return: no goroutine holds the lock for writing
CanRLock == mu = 0

\* the local variables of a goroutine outside a critical section
NoLocal == [order |-> NoOrder, quote |-> NoQuote]

\* e.account.Cash of the default account: 100000 dollars, in quarter dollars
DefaultCash == 400000

-----------------------------------------------------------------------------
(* updatePosition *)

\* a buy with no position for the symbol: the new Position
NewPosition(order) ==
    [Symbol        |-> order.Symbol,
     Quantity      |-> order.FilledQty,
     EntryPrice    |-> order.AvgFillPrice,
     CurrentPrice  |-> order.AvgFillPrice,
     Cost          |-> FMul(F(order.FilledQty), order.AvgFillPrice),
     MarketValue   |-> F(0),
     UnrealizedPnL |-> F(0)]

\* AddToPosition with the entry price averaged over the two prices, not
\* weighted by the quantities
AddToPosition_SimpleAverage(pos, order) ==
    LET totalQuantity == pos.Quantity + order.FilledQty
        totalCost     == FAdd(pos.Cost, FMul(F(order.FilledQty), order.AvgFillPrice))
    IN  [pos EXCEPT !.Quantity     = totalQuantity,
                    !.Cost         = totalCost,
                    !.EntryPrice   = FDiv(FAdd(pos.EntryPrice, order.AvgFillPrice), F(2)),
                    !.CurrentPrice = order.AvgFillPrice]

\* a buy into an existing position: weighted average cost
AddToPosition(pos, order) ==
    LET totalQuantity == pos.Quantity + order.FilledQty
        totalCost     == FAdd(pos.Cost, FMul(F(order.FilledQty), order.AvgFillPrice))
    IN  [pos EXCEPT !.Quantity     = totalQuantity,
                    !.Cost         = totalCost,
                    !.EntryPrice   = FDiv(totalCost, F(totalQuantity)),
                    !.CurrentPrice = order.AvgFillPrice]

\* a sell out of an existing position
ReducePosition(pos, order) ==
    [pos EXCEPT !.Quantity     = pos.Quantity - order.FilledQty,
                !.CurrentPrice = order.AvgFillPrice]

\* RealizedPnL taken against the position's current price, which the sell
\* has just set to the fill price
RealizedPnL_AtCurrentPrice(pos, order) ==
    FMul(F(order.FilledQty), FSub(order.AvgFillPrice, pos.CurrentPrice))

\* realized profit of a sell, against the position's entry price
RealizedPnL(pos, order) ==
    FMul(F(order.FilledQty), FSub(order.AvgFillPrice, pos.EntryPrice))

\* the Trade recorded when a sell closes a position; O is e.orders
NewTrade(pos, order, O) ==
    [Symbol      |-> order.Symbol,
     EntryOrder  |-> O[order.ID],
     ExitOrder   |-> order,
     EntryPrice  |-> pos.EntryPrice,
     ExitPrice   |-> order.AvgFillPrice,
     Quantity    |-> order.FilledQty,
     RealizedPnL |-> RealizedPnL(pos, order)]

\* delete(e.positions, symbol)
DeletePosition(P, symbol) == [s \in DOMAIN P \ {symbol} |-> P[s]]

\* e.positions[symbol] = pos
PutPosition(P, symbol, pos) ==
    [s \in DOMAIN P \cup {symbol} |-> IF s = symbol THEN pos ELSE P[s]]

\* StoreOpen without the test that the position is still open
StoreOpen_Always(P, symbol, pos) ==
    LET mv == FMul(F(pos.Quantity), pos.CurrentPrice)
    IN  PutPosition(P, symbol,
            [pos EXCEPT !.MarketValue   = mv,
                        !.UnrealizedPnL = FSub(mv, pos.Cost)])

\* the closing block of updatePosition: a position still open is revalued
\* and stored
StoreOpen(P, symbol, pos) ==
    IF pos.Quantity > 0
    THEN LET mv == FMul(F(pos.Quantity), pos.CurrentPrice)
         IN  PutPosition(P, symbol,
                 [pos EXCEPT !.MarketValue   = mv,
                             !.UnrealizedPnL = FSub(mv, pos.Cost)])
    ELSE P

\* SellPosition closing the position only below zero
SellPosition_StrictClose(order, O, P, A, T) ==
    LET symbol == order.Symbol
        pos    == ReducePosition(P[symbol], order)
        A2     == [A EXCEPT !.RealizedPnL = FAdd(@, RealizedPnL(pos, order))]
    IN  IF pos.Quantity < 0
        THEN [positions |-> StoreOpen(DeletePosition(P, symbol), symbol, pos),
              account   |-> A2,
              trades    |-> Append(T, NewTrade(pos, order, O))]
        ELSE [positions |-> StoreOpen(PutPosition(P, symbol, pos), symbol, pos),
              account   |-> A2,
              trades    |-> T]

\* the sell branch on an existing position
SellPosition(order, O, P, A, T) ==
    LET symbol == order.Symbol
        pos    == ReducePosition(P[symbol], order)
        A2     == [A EXCEPT !.RealizedPnL = FAdd(@, RealizedPnL(pos, order))]
    IN  IF pos.Quantity <= 0
        THEN [positions |-> StoreOpen(DeletePosition(P, symbol), symbol, pos),
              account   |-> A2,
              trades    |-> Append(T, NewTrade(pos, order, O))]
        ELSE [positions |-> StoreOpen(PutPosition(P, symbol, pos), symbol, pos),
              account   |-> A2,
              trades    |-> T]

\* updatePosition treating a sell without a position as a sell of an empty
\* position
updatePosition_ShortSell(order, O, P, A, T) ==
    LET symbol == order.Symbol
        exists == symbol \in DOMAIN P
        same   == [positions |-> P, account |-> A, trades |-> T]
        empty  == [NewPosition(order) EXCEPT !.Quantity = 0, !.Cost = F(0)]
    IN  IF order.Status # OrderStatusFilled THEN same
        ELSE IF order.Side = OrderSideBuy
        THEN LET pos == IF ~exists THEN NewPosition(order)
                        ELSE AddToPosition(P[symbol], order)
             IN  [same EXCEPT !.positions = StoreOpen(P, symbol, pos)]
        ELSE SellPosition(order, O, IF exists THEN P
                                    ELSE PutPosition(P, symbol, empty), A, T)

\* updatePosition(order) on orders O, positions P, account A, trades T
updatePosition(order, O, P, A, T) ==
    LET symbol == order.Symbol
        exists == symbol \in DOMAIN P
        same   == [positions |-> P, account |-> A, trades |-> T]
    IN  IF order.Status # OrderStatusFilled THEN same
        ELSE IF order.Side = OrderSideBuy
        THEN LET pos == IF ~exists THEN NewPosition(order)
                        ELSE AddToPosition(P[symbol], order)
             IN  [same EXCEPT !.positions = StoreOpen(P, symbol, pos)]
        ELSE IF ~exists THEN same
        ELSE SellPosition(order, O, P, A, T)

-----------------------------------------------------------------------------
(* SubmitOrder *)

\* ValidateOrder with the quantity checked before the symbol
ValidateOrder_QuantityFirst(a, P, lim) ==
    IF a.quantity <= 0 THEN ErrInvalidQuantity
    ELSE IF a.symbol = "" THEN ErrInvalidSymbol
    ELSE IF a.price < 0 /\ a.type # OrderTypeMarket THEN ErrInvalidPrice
    ELSE IF a.type \notin {OrderTypeMarket, OrderTypeLimit, OrderTypeStop}
         THEN ErrInvalidOrderType
    ELSE IF a.side \notin {OrderSideBuy, OrderSideSell} THEN ErrInvalidOrderSide
    ELSE IF a.side = OrderSideBuy /\ Cardinality(DOMAIN P) >= lim.MaxPositions
         THEN ErrTradeLimitExceeded
    ELSE Nil

\* ValidateOrder with the position limit compared by > instead of >=
ValidateOrder_OffByOne(a, P, lim) ==
    IF a.symbol = "" THEN ErrInvalidSymbol
    ELSE IF a.quantity <= 0 THEN ErrInvalidQuantity
    ELSE IF a.price < 0 /\ a.type # OrderTypeMarket THEN ErrInvalidPrice
    ELSE IF a.type \notin {OrderTypeMarket, OrderTypeLimit, OrderTypeStop}
         THEN ErrInvalidOrderType
    ELSE IF a.side \notin {OrderSideBuy, OrderSideSell} THEN ErrInvalidOrderSide
    ELSE IF a.side = OrderSideBuy /\ Cardinality(DOMAIN P) > lim.MaxPositions
         THEN ErrTradeLimitExceeded
    ELSE Nil

\* the checks SubmitOrder makes under the lock, in the order it makes them;
\* Nil when the order is accepted
ValidateOrder(a, P, lim) ==
    IF a.symbol = "" THEN ErrInvalidSymbol
    ELSE IF a.quantity <= 0 THEN ErrInvalidQuantity
    ELSE IF a.price < 0 /\ a.type # OrderTypeMarket THEN ErrInvalidPrice
    ELSE IF a.type \notin {OrderTypeMarket, OrderTypeLimit, OrderTypeStop}
         THEN ErrInvalidOrderType
    ELSE IF a.side \notin {OrderSideBuy, OrderSideSell} THEN ErrInvalidOrderSide
    ELSE IF a.side = OrderSideBuy /\ Cardinality(DOMAIN P) >= lim.MaxPositions
         THEN ErrTradeLimitExceeded
    ELSE Nil

\* AcceptedOrder left pending
AcceptedOrder_Pending(a, id, seq) ==
    [ID           |-> id,
     Symbol       |-> a.symbol,
     Quantity     |-> a.quantity,
     Price        |-> a.price,
     Type         |-> a.type,
     Side         |-> a.side,
     Status       |-> OrderStatusPending,
     FilledQty    |-> 0,
     AvgFillPrice |-> F(0),
     seq          |-> seq]

\* the Order SubmitOrder creates and marks accepted; seq is not a field of
\* the program's Order: it numbers the orders in the order they were created
AcceptedOrder(a, id, seq) ==
    [ID           |-> id,
     Symbol       |-> a.symbol,
     Quantity     |-> a.quantity,
     Price        |-> a.price,
     Type         |-> a.type,
     Side         |-> a.side,
     Status       |-> OrderStatusAccepted,
     FilledQty    |-> 0,
     AvgFillPrice |-> F(0),
     seq          |-> seq]

\* the order after a successful quote lookup
FilledOrder(order, fillPrice) ==
    [order EXCEPT !.Status       = OrderStatusFilled,
                  !.FilledQty    = order.Quantity,
                  !.AvgFillPrice = F(fillPrice)]

\* e.orders[order.ID] = order
PutOrder(O, order) ==
    [i \in DOMAIN O \cup {order.ID} |-> IF i = order.ID THEN order ELSE O[i]]

\* time.Now().UnixNano(), from which the order ID is made.  A clock of
\* nanosecond resolution gives every order a later time than the one before
\* (Ticking); a coarse or stepped wall clock may give two orders the same
\* time (Coarse)
Ticking == {clock + 1}
Coarse  == {clock, clock + 1}

\* the call of goroutine t returns (order, err); quote is what its quote
\* lookup yielded, NoQuote when it made none
Return(t, err, order, quote) ==
    /\ pc'   = [pc EXCEPT ![t] = "idle"]
    /\ last' = [t |-> t, call |-> call[t], err |-> err, order |-> order,
                quote |-> quote]
    /\ call' = [call EXCEPT ![t] = NoCall]

\* e.IsEnabled() at the entry of SubmitOrder, ClosePosition and CancelOrder,
\* made before the lock is taken: the call returns ErrTradeDisabled or goes
\* on to its critical section
CheckEnabled(t, c, next) ==
    /\ CanRLock
    /\ IF ~enabled
       THEN /\ pc'   = [pc EXCEPT ![t] = "idle"]
            /\ last' = [t |-> t, call |-> c, err |-> ErrTradeDisabled,
                        order |-> NoOrder, quote |-> NoQuote]
            /\ call' = [call EXCEPT ![t] = NoCall]
       ELSE /\ pc'   = [pc EXCEPT ![t] = next]
            /\ call' = [call EXCEPT ![t] = c]
            /\ last' = NoLast
    /\ UNCHANGED <<enabled, limits, orders, positions, account, trades,
                   clock, nextSeq, lastFill>>
    /\ UNCHANGED <<lockVars, managerVars, polygonVars,
                   scannerVars, calcVars, loggerVars, watchlistVars>>

\* a call of SubmitOrder with arguments a
SubmitOrder(t, a) ==
    /\ pc[t] = "idle"
    /\ CheckEnabled(t, a, "submit")

\* FillOrder without the second store of the order
FillOrder_NotStored(t, order, quote) ==
    LET fillPrice == quote.LastPrice
        filled == FilledOrder(order, fillPrice)
        O1     == PutOrder(orders, order)
        up     == updatePosition(filled, O1, positions, account, trades)
    IN  /\ orders'    = O1
        /\ positions' = up.positions
        /\ account'   = up.account
        /\ trades'    = up.trades
        /\ lastFill'  = [lastFill EXCEPT ![order.Symbol] =
                            [side |-> order.Side, qty |-> filled.FilledQty,
                             price |-> fillPrice,
                             hadPos |-> order.Symbol \in DOMAIN positions]]
        /\ Return(t, Nil, filled, quote)

\* the market-order branch of SubmitOrder with a quote: fill, update the
\* position, store the order again
FillOrder(t, order, quote) ==
    LET fillPrice == quote.LastPrice
        filled == FilledOrder(order, fillPrice)
        O1     == PutOrder(orders, order)
        up     == updatePosition(filled, O1, positions, account, trades)
    IN  /\ orders'    = PutOrder(O1, filled)
        /\ positions' = up.positions
        /\ account'   = up.account
        /\ trades'    = up.trades
        /\ lastFill'  = [lastFill EXCEPT ![order.Symbol] =
                            [side |-> order.Side, qty |-> filled.FilledQty,
                             price |-> fillPrice,
                             hadPos |-> order.Symbol \in DOMAIN positions]]
        /\ Return(t, Nil, filled, quote)

\* the critical section of SubmitOrder; nows are the times the clock can
\* show, maxOrders bounds the orders stored
SubmitLocked(t, nows, maxOrders) ==
    /\ pc[t] = "submit"
    /\ CanLock
    /\ LET a   == call[t]
           err == ValidateOrder(a, positions, limits)
       IN  IF err # Nil
           THEN /\ Return(t, err, NoOrder, NoQuote)
                /\ UNCHANGED <<orders, positions, account, trades,
                               clock, nextSeq, lastFill>>
           ELSE /\ nextSeq <= maxOrders
                /\ \E now \in nows, q \in QuoteOutcomes(a.symbol) :
                     LET order == AcceptedOrder(a, now, nextSeq)
                     IN  /\ clock'   = now
                         /\ nextSeq' = nextSeq + 1
                         /\ IF a.type = OrderTypeMarket /\ q.err = Nil
                            THEN FillOrder(t, order, q)
                            ELSE /\ orders' = PutOrder(orders, order)
                                 /\ Return(t, Nil, order,
                                           IF a.type = OrderTypeMarket
                                           THEN q ELSE NoQuote)
                                 /\ UNCHANGED <<positions, account, trades, lastFill>>
    /\ UNCHANGED <<enabled, limits>>
    /\ UNCHANGED <<lockVars, managerVars, polygonVars,
                   scannerVars, calcVars, loggerVars, watchlistVars>>

-----------------------------------------------------------------------------
(* CancelOrder *)

CancelArgs(id) == [op |-> "CancelOrder", orderID |-> id]

\* a call of CancelOrder(orderID)
CancelOrder(t, id) ==
    /\ pc[t] = "idle"
    /\ CheckEnabled(t, CancelArgs(id), "cancel")

\* NotCancelable with no status in it: every order can be canceled
NotCancelable_None == {}

\* NotCancelable without the canceled and rejected orders
NotCancelable_FilledOnly == {OrderStatusFilled}

\* the statuses CancelOrder refuses to cancel
NotCancelable == {OrderStatusFilled, OrderStatusCanceled, OrderStatusRejected}

\* the critical section of CancelOrder
CancelLocked(t) ==
    /\ pc[t] = "cancel"
    /\ CanLock
    /\ LET id == call[t].orderID
       IN  IF id \notin DOMAIN orders
           THEN Return(t, ErrOrderNotFound, NoOrder, NoQuote) /\ orders' = orders
           ELSE IF orders[id].Status \in NotCancelable
           THEN Return(t, ErrCannotCancel, NoOrder, NoQuote) /\ orders' = orders
           ELSE /\ orders' = [orders EXCEPT ![id].Status = OrderStatusCanceled]
                /\ Return(t, Nil, NoOrder, NoQuote)
    /\ UNCHANGED <<enabled, limits, positions, account, trades,
                   clock, nextSeq, lastFill>>
    /\ UNCHANGED <<lockVars, managerVars, polygonVars,
                   scannerVars, calcVars, loggerVars, watchlistVars>>

-----------------------------------------------------------------------------
(* ClosePosition *)

CloseArgs(sym, qty) == [op |-> "ClosePosition", symbol |-> sym, quantity |-> qty]

\* a call of ClosePosition(symbol, quantity)
ClosePosition(t, sym, qty) ==
    /\ pc[t] = "idle"
    /\ CheckEnabled(t, CloseArgs(sym, qty), "close")

\* the quantity ClosePosition sells of a position
CloseQuantity(quantity, pos) ==
    IF quantity <= 0 \/ quantity > pos.Quantity THEN pos.Quantity ELSE quantity

\* the critical section of ClosePosition: look the position up, release the
\* lock
CloseLocked(t) ==
    /\ pc[t] = "close"
    /\ CanLock
    /\ LET c == call[t]
       IN  IF c.symbol \notin DOMAIN positions
           THEN Return(t, ErrNoPosition, NoOrder, NoQuote)
           ELSE /\ pc'   = [pc EXCEPT ![t] = "close_submit"]
                /\ call' = [call EXCEPT ![t] =
                              [Args(c.symbol,
                                    CloseQuantity(c.quantity, positions[c.symbol]),
                                    0, OrderTypeMarket, OrderSideSell)
                               EXCEPT !.op = "ClosePosition"]]
                /\ last' = last
    /\ UNCHANGED <<enabled, limits, orders, positions, account, trades,
                   clock, nextSeq, lastFill>>
    /\ UNCHANGED <<lockVars, managerVars, polygonVars,
                   scannerVars, calcVars, loggerVars, watchlistVars>>

\* ClosePosition calls SubmitOrder for the market sell
CloseSubmit(t) ==
    /\ pc[t] = "close_submit"
    /\ CheckEnabled(t, call[t], "submit")

-----------------------------------------------------------------------------
(* Engine control *)

Enable ==
    /\ CanLock
    /\ enabled' = TRUE
    /\ UNCHANGED <<limits, orders, positions, account, trades,
                   clock, nextSeq, lastFill, pc, call, last>>
    /\ UNCHANGED <<lockVars, managerVars, polygonVars,
                   scannerVars, calcVars, loggerVars, watchlistVars>>

Disable ==
    /\ CanLock
    /\ enabled' = FALSE
    /\ UNCHANGED <<limits, orders, positions, account, trades,
                   clock, nextSeq, lastFill, pc, call, last>>
    /\ UNCHANGED <<lockVars, managerVars, polygonVars,
                   scannerVars, calcVars, loggerVars, watchlistVars>>

SetLimits(l) ==
    /\ CanLock
    /\ limits' = l
    /\ UNCHANGED <<enabled, orders, positions, account, trades,
                   clock, nextSeq, lastFill, pc, call, last>>
    /\ UNCHANGED <<lockVars, managerVars, polygonVars,
                   scannerVars, calcVars, loggerVars, watchlistVars>>

-----------------------------------------------------------------------------
(* SubmitOrder, statement by statement under e.mu *)

\* orders, positions, account and trades
EngineState ==
    [orders |-> orders, positions |-> positions, account |-> account,
     trades |-> trades]

\* SubmitOrder from e.mu.Lock() to its return, as one function of the engine
\* state S: the call with arguments a under limits lim, whose order is made
\* at time now as order number seq and whose quote lookup yields q
ApplySubmit(S, a, lim, now, seq, q) ==
    IF ValidateOrder(a, S.positions, lim) # Nil THEN S
    ELSE LET order == AcceptedOrder(a, now, seq)
             O1    == PutOrder(S.orders, order)
         IN  IF a.type = OrderTypeMarket /\ q.err = Nil
             THEN LET filled == FilledOrder(order, q.LastPrice)
                      up == updatePosition(filled, O1, S.positions, S.account,
                                           S.trades)
                  IN  [orders    |-> PutOrder(O1, filled),
                       positions |-> up.positions,
                       account   |-> up.account,
                       trades    |-> up.trades]
             ELSE [S EXCEPT !.orders = O1]

\* the critical section ends: deferred e.mu.Unlock()
Unlock(t, now, seq, q) ==
    /\ mu' = 0
    /\ local' = [local EXCEPT ![t] = NoLocal]
    /\ serial' = ApplySubmit(serial, call[t], limits, now, seq, q)

\* SubmitLock taking the lock while another goroutine holds it
SubmitLock_NoExclusion(t) ==
    /\ pc[t] = "submit"
    /\ mu' = t
    /\ pc' = [pc EXCEPT ![t] = "submit_locked"]
    /\ UNCHANGED <<enabled, limits, orders, positions, account, trades,
                   clock, nextSeq, lastFill, call, last, rlock, local, serial>>
    /\ UNCHANGED <<managerVars, polygonVars,
                   scannerVars, calcVars, loggerVars, watchlistVars>>

\* e.mu.Lock() of SubmitOrder
SubmitLock(t) ==
    /\ pc[t] = "submit"
    /\ CanLock
    /\ mu' = t
    /\ pc' = [pc EXCEPT ![t] = "submit_locked"]
    /\ UNCHANGED <<enabled, limits, orders, positions, account, trades,
                   clock, nextSeq, lastFill, call, last, rlock, local, serial>>
    /\ UNCHANGED <<managerVars, polygonVars,
                   scannerVars, calcVars, loggerVars, watchlistVars>>

\* the checks, and the order made and stored as accepted; a market order
\* goes on to its quote lookup
SubmitCreate(t, nows, maxOrders) ==
    /\ pc[t] = "submit_locked"
    /\ LET a   == call[t]
           err == ValidateOrder(a, positions, limits)
       IN  IF err # Nil
           THEN /\ Return(t, err, NoOrder, NoQuote)
                /\ Unlock(t, clock, nextSeq, NoQuote)
                /\ UNCHANGED <<orders, clock, nextSeq>>
           ELSE /\ nextSeq <= maxOrders
                /\ \E now \in nows :
                     LET order == AcceptedOrder(a, now, nextSeq)
                     IN  /\ clock'   = now
                         /\ nextSeq' = nextSeq + 1
                         /\ orders'  = PutOrder(orders, order)
                         /\ IF a.type = OrderTypeMarket
                            THEN /\ pc' = [pc EXCEPT ![t] = "submit_quote"]
                                 /\ local' = [local EXCEPT ![t].order = order]
                                 /\ UNCHANGED <<mu, serial, call, last>>
                            ELSE /\ Return(t, Nil, order, NoQuote)
                                 /\ Unlock(t, now, nextSeq, NoQuote)
    /\ UNCHANGED <<enabled, limits, positions, account, trades, lastFill, rlock>>
    /\ UNCHANGED <<managerVars, polygonVars,
                   scannerVars, calcVars, loggerVars, watchlistVars>>

\* the quote lookup of a market order: GetPrimaryDataSource and
\* GetRealTimeQuote, called with the lock held
SubmitQuote(t) ==
    /\ pc[t] = "submit_quote"
    /\ \E q \in QuoteOutcomes(call[t].symbol) :
          IF q.err = Nil
          THEN /\ pc' = [pc EXCEPT ![t] = "submit_fill"]
               /\ local' = [local EXCEPT ![t].quote = q]
               /\ UNCHANGED <<mu, serial, call, last>>
          ELSE /\ Return(t, Nil, local[t].order, q)
               /\ Unlock(t, local[t].order.ID, local[t].order.seq, q)
    /\ UNCHANGED <<enabled, limits, orders, positions, account, trades,
                   clock, nextSeq, lastFill, rlock>>
    /\ UNCHANGED <<managerVars, polygonVars,
                   scannerVars, calcVars, loggerVars, watchlistVars>>

\* the fill of a market order with its quote
SubmitFill(t) ==
    /\ pc[t] = "submit_fill"
    /\ FillOrder(t, local[t].order, local[t].quote)
    /\ Unlock(t, local[t].order.ID, local[t].order.seq, local[t].quote)
    /\ UNCHANGED <<enabled, limits, clock, nextSeq, rlock>>
    /\ UNCHANGED <<managerVars, polygonVars,
                   scannerVars, calcVars, loggerVars, watchlistVars>>

-----------------------------------------------------------------------------
(* GetAccount *)

\* e.mu.RLock() of GetAccount
GetAccount(t) ==
    /\ pc[t] = "idle"
    /\ CanRLock
    /\ rlock' = rlock \cup {t}
    /\ pc' = [pc EXCEPT ![t] = "account_sum"]
    /\ call' = [call EXCEPT ![t] = [op |-> "GetAccount"]]
    /\ last' = NoLast
    /\ UNCHANGED <<enabled, limits, orders, positions, account, trades,
                   clock, nextSeq, lastFill, mu, local, serial>>
    /\ UNCHANGED <<managerVars, polygonVars,
                   scannerVars, calcVars, loggerVars, watchlistVars>>

RECURSIVE SumUnrealizedPnL(_)
\* the sum of pos.UnrealizedPnL over the positions P
SumUnrealizedPnL(P) ==
    IF DOMAIN P = {} THEN F(0)
    ELSE LET s == CHOOSE x \in DOMAIN P : TRUE
         IN  FAdd(P[s].UnrealizedPnL, SumUnrealizedPnL(DeletePosition(P, s)))

\* GetAccount sums the unrealized profit of the positions and writes it and
\* the total into e.account, holding the read lock
AccountSum(t) ==
    /\ pc[t] = "account_sum"
    /\ LET unrealizedPnL == SumUnrealizedPnL(positions)
       IN  account' = [account EXCEPT
                          !.UnrealizedPnL = unrealizedPnL,
                          !.TotalPnL = FAdd(account.RealizedPnL, unrealizedPnL)]
    /\ pc' = [pc EXCEPT ![t] = "account_defaults"]
    /\ UNCHANGED <<enabled, limits, orders, positions, trades,
                   clock, nextSeq, lastFill, call, last, lockVars>>
    /\ UNCHANGED <<managerVars, polygonVars,
                   scannerVars, calcVars, loggerVars, watchlistVars>>

\* the account GetAccount leaves: one without an ID gets the defaults
DefaultAccount(A, lim) ==
    IF A.ID = ""
    THEN [A EXCEPT !.ID = "default-account",
                   !.Cash = F(DefaultCash),
                   !.BuyingPower = FMul(F(DefaultCash), F(2)),
                   !.Equity = FAdd(F(DefaultCash), A.UnrealizedPnL),
                   !.MaxDailyTrades = lim.MaxDailyTrades]
    ELSE A

\* GetAccount writes the defaults into an account without an ID, releases
\* the read lock and returns &e.account
AccountDefaults(t) ==
    /\ pc[t] = "account_defaults"
    /\ account' = DefaultAccount(account, limits)
    /\ rlock' = rlock \ {t}
    /\ Return(t, Nil, NoOrder, NoQuote)
    /\ UNCHANGED <<enabled, limits, orders, positions, trades,
                   clock, nextSeq, lastFill, mu, local, serial>>
    /\ UNCHANGED <<managerVars, polygonVars,
                   scannerVars, calcVars, loggerVars, watchlistVars>>

-----------------------------------------------------------------------------
(* datasource.Manager *)

\* the names of the data sources
SourceNames == {"polygon", "backup", "archive"}

\* the sources registered where HealthCheckAll is looked at
HealthSources == {"polygon", "backup"}

\* a DataSource as far as the manager looks at it: its IsEnabled()
DataSource(en) == [enabled |-> en]

ErrAlreadyExists  == "data source already exists"
ErrDoesNotExist   == "data source does not exist"
ErrCloseFailed    == "failed to close data source"
ErrAllFailed      == "all data sources failed, last error"
ErrNoSources      == "no data sources available"
ErrSourceDisabled == "data source is disabled"
\* an error returned by a data source's GetStockData, HealthCheck or Close
ErrSource         == "data source error"

\* what a call of the manager returned; was is not a value of the program:
\* it is m.primary as the call found it
ManagerReturn(op, name, err) ==
    [op |-> op, name |-> name, err |-> err, was |-> primary]

\* delete(m.dataSources, name)
DeleteSource(D, name) == [n \in DOMAIN D \ {name} |-> D[n]]

\* m.dataSources[name] = ds
PutSource(D, name, ds) ==
    [n \in DOMAIN D \cup {name} |-> IF n = name THEN ds ELSE D[n]]

\* AddDataSource(ds), ds.Name() being name
AddDataSource(name, ds) ==
    /\ IF name \in DOMAIN dataSources
       THEN /\ mlast' = ManagerReturn("AddDataSource", name, ErrAlreadyExists)
            /\ UNCHANGED <<dataSources, primary>>
       ELSE /\ dataSources' = PutSource(dataSources, name, ds)
            /\ primary' = IF Cardinality(DOMAIN dataSources') = 1
                           THEN name ELSE primary
            /\ mlast' = ManagerReturn("AddDataSource", name, Nil)
    /\ UNCHANGED <<gsd, hca>>
    /\ UNCHANGED <<enabled, limits, orders, positions, account, trades,
                   clock, nextSeq, lastFill, pc, call, last>>
    /\ UNCHANGED <<lockVars, polygonVars, scannerVars, calcVars, loggerVars,
                   watchlistVars>>

\* the primary after the removal of source name, D being the sources left:
\* any one of them when the primary was removed
NewPrimary_Kept(D, name) == {primary}

NewPrimary(D, name) ==
    IF primary # name THEN {primary}
    ELSE IF DOMAIN D # {} THEN DOMAIN D
    ELSE {""}

\* RemoveDataSource(name); closeErr is what ds.Close() returns
RemoveDataSource(name, closeErr) ==
    /\ IF name \notin DOMAIN dataSources
       THEN /\ mlast' = ManagerReturn("RemoveDataSource", name, ErrDoesNotExist)
            /\ UNCHANGED <<dataSources, primary>>
       ELSE IF closeErr # Nil
       THEN /\ mlast' = ManagerReturn("RemoveDataSource", name, ErrCloseFailed)
            /\ UNCHANGED <<dataSources, primary>>
       ELSE /\ dataSources' = DeleteSource(dataSources, name)
            /\ primary' \in NewPrimary(dataSources', name)
            /\ mlast' = ManagerReturn("RemoveDataSource", name, Nil)
    /\ UNCHANGED <<gsd, hca>>
    /\ UNCHANGED <<enabled, limits, orders, positions, account, trades,
                   clock, nextSeq, lastFill, pc, call, last>>
    /\ UNCHANGED <<lockVars, polygonVars, scannerVars, calcVars, loggerVars,
                   watchlistVars>>

\* SetPrimaryDataSource(name)
SetPrimaryDataSource(name) ==
    /\ IF name \notin DOMAIN dataSources
       THEN /\ mlast' = ManagerReturn("SetPrimaryDataSource", name, ErrDoesNotExist)
            /\ UNCHANGED primary
       ELSE /\ primary' = name
            /\ mlast' = ManagerReturn("SetPrimaryDataSource", name, Nil)
    /\ UNCHANGED <<dataSources, gsd, hca>>
    /\ UNCHANGED <<enabled, limits, orders, positions, account, trades,
                   clock, nextSeq, lastFill, pc, call, last>>
    /\ UNCHANGED <<lockVars, polygonVars, scannerVars, calcVars, loggerVars,
                   watchlistVars>>

-----------------------------------------------------------------------------
(* Manager.GetStockData *)

\* no GetStockData call is running.  A call keeps: the copies of m.primary
\* and m.dataSources it took, the sources its loop has still to visit
\* (rest), the sources it has called with whether each succeeded (tried),
\* the source lastErr comes from ("" for a nil lastErr), and, once it has
\* returned, its error and the source its data came from
NoGetStockData ==
    [pc |-> "idle", primary |-> "", dataSources |-> <<>>, rest |-> {},
     tried |-> <<>>, lastErr |-> "", err |-> Nil, data |-> ""]

\* what a source's GetStockData can return: a nil error or an error
SourceOutcomes == {Nil, ErrSource}

\* GetStockData takes its copies under the read lock
GetStockDataStart ==
    /\ gsd.pc \in {"idle", "done"}
    /\ gsd' = [NoGetStockData EXCEPT !.pc = "primary",
                                     !.primary = primary,
                                     !.dataSources = dataSources,
                                     !.rest = DOMAIN dataSources]
    /\ UNCHANGED <<dataSources, primary, hca, mlast>>
    /\ UNCHANGED <<enabled, limits, orders, positions, account, trades,
                   clock, nextSeq, lastFill, pc, call, last>>
    /\ UNCHANGED <<lockVars, polygonVars, scannerVars, calcVars, loggerVars,
                   watchlistVars>>

\* the call returns data from source name
ReturnData(name) ==
    [gsd EXCEPT !.pc = "done", !.err = Nil, !.data = name,
                !.tried = Append(gsd.tried, [name |-> name, ok |-> TRUE])]

\* the primary source is tried first
GetStockDataPrimary ==
    /\ gsd.pc = "primary"
    /\ IF gsd.primary \in DOMAIN gsd.dataSources
          /\ gsd.dataSources[gsd.primary].enabled
       THEN \E err \in SourceOutcomes :
               gsd' = IF err = Nil THEN ReturnData(gsd.primary)
                      ELSE [gsd EXCEPT
                               !.pc = "others",
                               !.tried = Append(gsd.tried,
                                   [name |-> gsd.primary, ok |-> FALSE])]
       ELSE gsd' = [gsd EXCEPT !.pc = "others"]
    /\ UNCHANGED <<dataSources, primary, hca, mlast>>
    /\ UNCHANGED <<enabled, limits, orders, positions, account, trades,
                   clock, nextSeq, lastFill, pc, call, last>>
    /\ UNCHANGED <<lockVars, polygonVars, scannerVars, calcVars, loggerVars,
                   watchlistVars>>

\* the end of the loop over the other sources
ReturnError ==
    [gsd EXCEPT !.pc = "done",
                !.err = IF gsd.lastErr # "" THEN ErrAllFailed ELSE ErrNoSources]

\* VisitSource giving up at the first error of a source
VisitSource_StopAtError(name, err) ==
    IF name = gsd.primary \/ ~gsd.dataSources[name].enabled
    THEN [gsd EXCEPT !.rest = gsd.rest \ {name}]
    ELSE IF err = Nil THEN ReturnData(name)
    ELSE [gsd EXCEPT !.rest = {},
                     !.lastErr = name,
                     !.tried = Append(gsd.tried, [name |-> name, ok |-> FALSE])]

\* one turn of the loop over the other sources, on source name; err is what
\* its GetStockData returns if it is called
VisitSource(name, err) ==
    IF name = gsd.primary \/ ~gsd.dataSources[name].enabled
    THEN [gsd EXCEPT !.rest = gsd.rest \ {name}]
    ELSE IF err = Nil THEN ReturnData(name)
    ELSE [gsd EXCEPT !.rest = gsd.rest \ {name},
                     !.lastErr = name,
                     !.tried = Append(gsd.tried, [name |-> name, ok |-> FALSE])]

\* the loop over the other sources, in the order the map yields them, and
\* the return after it
GetStockDataOthers ==
    /\ gsd.pc = "others"
    /\ IF gsd.rest = {}
       THEN gsd' = ReturnError
       ELSE \E name \in gsd.rest, err \in SourceOutcomes :
               gsd' = VisitSource(name, err)
    /\ UNCHANGED <<dataSources, primary, hca, mlast>>
    /\ UNCHANGED <<enabled, limits, orders, positions, account, trades,
                   clock, nextSeq, lastFill, pc, call, last>>
    /\ UNCHANGED <<lockVars, polygonVars, scannerVars, calcVars, loggerVars,
                   watchlistVars>>

-----------------------------------------------------------------------------
(* Manager.HealthCheckAll *)

\* no HealthCheckAll call is running.  A call keeps: its copy of
\* m.dataSources, for every source the position of its goroutine (g) and the
\* error the goroutine is to store (value), the sources whose HealthCheck was
\* invoked, the results map, and the goroutines whose store into the map ran
\* while another goroutine's store was running (raced)
NoHealthCheckAll ==
    [pc |-> "idle", dataSources |-> <<>>, g |-> <<>>, value |-> <<>>,
     invoked |-> {}, results |-> <<>>, raced |-> {}]

\* what a source's HealthCheck can return
HealthOutcomes == {Nil, ErrSource}

\* HealthCheckAll copies the sources and starts a goroutine for each
HealthCheckAllStart ==
    /\ hca.pc \in {"idle", "done"}
    /\ hca' = [NoHealthCheckAll EXCEPT
                  !.pc = "running",
                  !.dataSources = dataSources,
                  !.g = [n \in DOMAIN dataSources |-> "start"],
                  !.value = [n \in DOMAIN dataSources |-> Nil]]
    /\ UNCHANGED <<dataSources, primary, gsd, mlast>>
    /\ UNCHANGED <<enabled, limits, orders, positions, account, trades,
                   clock, nextSeq, lastFill, pc, call, last>>
    /\ UNCHANGED <<lockVars, polygonVars, scannerVars, calcVars, loggerVars,
                   watchlistVars>>

\* the goroutine of source name up to its store: a disabled source gets the
\* disabled error, an enabled one the error of its HealthCheck
HealthCheck(name) ==
    /\ hca.pc = "running"
    /\ hca.g[name] = "start"
    /\ IF ~hca.dataSources[name].enabled
       THEN hca' = [hca EXCEPT !.g[name] = "store",
                               !.value[name] = ErrSourceDisabled]
       ELSE \E err \in HealthOutcomes :
               hca' = [hca EXCEPT !.g[name] = "store",
                                  !.value[name] = err,
                                  !.invoked = hca.invoked \cup {name}]
    /\ UNCHANGED <<dataSources, primary, gsd, mlast>>
    /\ UNCHANGED <<enabled, limits, orders, positions, account, trades,
                   clock, nextSeq, lastFill, pc, call, last>>
    /\ UNCHANGED <<lockVars, polygonVars, scannerVars, calcVars, loggerVars,
                   watchlistVars>>

\* the goroutines inside results[name] = err
Storing == {n \in DOMAIN hca.g : hca.g[n] = "storing"}

\* results[name] = err begins: the map assignment is not atomic and no lock
\* is held
StoreBegin(name) ==
    /\ hca.pc = "running"
    /\ hca.g[name] = "store"
    /\ hca' = [hca EXCEPT !.g[name] = "storing",
                           !.raced = IF Storing # {}
                                     THEN hca.raced \cup Storing \cup {name}
                                     ELSE hca.raced]
    /\ UNCHANGED <<dataSources, primary, gsd, mlast>>
    /\ UNCHANGED <<enabled, limits, orders, positions, account, trades,
                   clock, nextSeq, lastFill, pc, call, last>>
    /\ UNCHANGED <<lockVars, polygonVars, scannerVars, calcVars, loggerVars,
                   watchlistVars>>

\* results[name] = err ends and the goroutine is done.  A store that ran
\* alone has stored its entry; one that ran together with another
\* goroutine's store is a data race on the map, after which the entry is
\* stored or lost, or the runtime has stopped the program (fatal error:
\* concurrent map writes)
StoreEnd(name) ==
    /\ hca.pc = "running"
    /\ hca.g[name] = "storing"
    /\ LET stored == [hca EXCEPT
                         !.g[name] = "done",
                         !.results = PutSource(hca.results, name, hca.value[name])]
       IN  IF name \notin hca.raced
           THEN hca' = stored
           ELSE \/ hca' = stored
                \/ hca' = [hca EXCEPT !.g[name] = "done"]
                \/ hca' = [hca EXCEPT !.pc = "crashed"]
    /\ UNCHANGED <<dataSources, primary, gsd, mlast>>
    /\ UNCHANGED <<enabled, limits, orders, positions, account, trades,
                   clock, nextSeq, lastFill, pc, call, last>>
    /\ UNCHANGED <<lockVars, polygonVars, scannerVars, calcVars, loggerVars,
                   watchlistVars>>

\* wg.Wait() returns when every goroutine is done, and HealthCheckAll
\* returns the results map
HealthCheckAllReturn ==
    /\ hca.pc = "running"
    /\ \A n \in DOMAIN hca.g : hca.g[n] = "done"
    /\ hca' = [hca EXCEPT !.pc = "done"]
    /\ UNCHANGED <<dataSources, primary, gsd, mlast>>
    /\ UNCHANGED <<enabled, limits, orders, positions, account, trades,
                   clock, nextSeq, lastFill, pc, call, last>>
    /\ UNCHANGED <<lockVars, polygonVars, scannerVars, calcVars, loggerVars,
                   watchlistVars>>

\* NewManager()
NewManager ==
    /\ dataSources = <<>>
    /\ primary = ""
    /\ gsd = NoGetStockData
    /\ hca = NoHealthCheckAll
    /\ mlast = ManagerReturn("none", "", Nil)

-----------------------------------------------------------------------------
(* PolygonDataSource.GetStockData *)

\* the defaults NewPolygonDataSource puts in place of values <= 0
DefaultRetryAttempts     == 3
DefaultRetryDelaySeconds == 5

\* the DataSourceConfig values a source is made from
DataSourceConfig(attempts, delay) ==
    [RetryAttempts |-> attempts, RetryDelaySeconds |-> delay]

PolygonConfigs ==
    { DataSourceConfig(a, d) : a \in {0, 1, 2}, d \in {0, 2} }

\* a *DataSourceError, and the nil error
DataSourceError(code) ==
    [Source |-> "polygon", Code |-> code, Message |-> "message of " \o code]
NoDataSourceError == [Source |-> "", Code |-> "", Message |-> ""]

\* what one p.httpClient.Do(req) can come back with: status 200, another
\* status, or an error
StatusOK    == "200"
StatusOther == "500"
DoError     == "error"

\* no GetStockData call is running on the source.  A call keeps: attempt,
\* what each Do of the call came back with (outcomes), the length in seconds
\* of each wait that ran to its end (delays), whether the caller's context
\* is cancelled, and once it has returned its error
NoPolygonCall ==
    [pc |-> "idle", attempt |-> 0, outcomes |-> <<>>, delays |-> <<>>,
     cancelled |-> FALSE, err |-> NoDataSourceError]

\* NewPolygonDataSource(config)
NewPolygonDataSource(config) ==
    poly = [config |->
              DataSourceConfig(
                  IF config.RetryAttempts <= 0 THEN DefaultRetryAttempts
                  ELSE config.RetryAttempts,
                  IF config.RetryDelaySeconds <= 0 THEN DefaultRetryDelaySeconds
                  ELSE config.RetryDelaySeconds),
            call |-> NoPolygonCall]

PolygonUnchanged ==
    /\ UNCHANGED <<enabled, limits, orders, positions, account, trades,
                   clock, nextSeq, lastFill, pc, call, last>>
    /\ UNCHANGED <<lockVars, managerVars, watchlistVars, scannerVars,
                   calcVars, loggerVars>>

\* the call returns the error err
PolygonReturn(err) == [poly.call EXCEPT !.pc = "done", !.err = err]

\* a call of GetStockData with a context that is cancelled already or not;
\* it builds the request, which can fail
PolygonGetStockData(cancelled, requestOK) ==
    /\ poly.call.pc \in {"idle", "done"}
    /\ LET c == [NoPolygonCall EXCEPT !.cancelled = cancelled]
       IN  poly' = [poly EXCEPT !.call =
                      IF requestOK THEN [c EXCEPT !.pc = "attempt"]
                      ELSE [c EXCEPT !.pc = "done",
                                     !.err = DataSourceError("REQUEST_CREATION_ERROR")]]
    /\ PolygonUnchanged

\* the caller cancels the context of the running call
PolygonCancel ==
    /\ poly.call.pc \notin {"idle", "done"}
    /\ ~poly.call.cancelled
    /\ poly' = [poly EXCEPT !.call.cancelled = TRUE]
    /\ PolygonUnchanged

\* LastAttempt holding for no attempt: a wait follows every attempt
LastAttempt_Never(attempt, retryAttempts) == FALSE

\* no wait follows this attempt
LastAttempt(attempt, retryAttempts) == ~(attempt < retryAttempts - 1)

\* the error returned after the loop, from what the last Do came back with
ErrorAfterLoop(outcome) ==
    IF outcome = DoError THEN DataSourceError("CONNECTION_ERROR")
    ELSE DataSourceError("API_ERROR")

\* one p.httpClient.Do(req) in the retry loop; a request whose context is
\* cancelled comes back with an error
PolygonAttempt ==
    /\ poly.call.pc = "attempt"
    /\ \E outcome \in IF poly.call.cancelled THEN {DoError}
                       ELSE {StatusOK, StatusOther, DoError} :
          LET c == [poly.call EXCEPT !.outcomes = Append(@, outcome)]
          IN  poly' = [poly EXCEPT !.call =
                IF outcome = StatusOK THEN [c EXCEPT !.pc = "decode"]
                ELSE IF ~LastAttempt(c.attempt, poly.config.RetryAttempts)
                THEN [c EXCEPT !.pc = "wait"]
                ELSE [c EXCEPT !.pc = "done",
                               !.attempt = c.attempt + 1,
                               !.err = ErrorAfterLoop(outcome)]]
    /\ PolygonUnchanged

\* the select between two attempts: the timer of RetryDelaySeconds fires
\* and the loop goes on
PolygonTimer ==
    /\ poly.call.pc = "wait"
    /\ ~poly.call.cancelled
    /\ poly' = [poly EXCEPT
                   !.call.pc = "attempt",
                   !.call.attempt = @ + 1,
                   !.call.delays = Append(@, poly.config.RetryDelaySeconds)]
    /\ PolygonUnchanged

\* the select between two attempts: ctx.Done() is ready
PolygonCancelled ==
    /\ poly.call.pc = "wait"
    /\ poly.call.cancelled
    /\ poly' = [poly EXCEPT !.call =
                   PolygonReturn(DataSourceError("CONTEXT_CANCELLED"))]
    /\ PolygonUnchanged

\* the response of status 200 is decoded
PolygonDecode ==
    /\ poly.call.pc = "decode"
    /\ \E err \in {NoDataSourceError, DataSourceError("RESPONSE_PARSE_ERROR")} :
          poly' = [poly EXCEPT !.call = PolygonReturn(err)]
    /\ PolygonUnchanged

-----------------------------------------------------------------------------
(* Watchlist *)

WatchStatusActive    == "active"
WatchStatusTriggered == "triggered"
WatchStatusExpired   == "expired"
WatchStatusInvalid   == "invalid"

\* a nil *time.Time
NoTime == -1

\* LastPrice values of the quotes ScanWatchlist fetches, in cents: 0 (a
\* quote without a last trade), 99.99, 100.00 and 100.01
WatchPrices == {0, 9999, 10000, 10001}

\* what the quote lookup of ScanWatchlist can yield
WatchQuotes ==
    {Quote(NoPrimary, 0), Quote(QuoteError, 0)}
        \cup {Quote(Nil, p) : p \in WatchPrices}

\* an item ID: the one the caller gave, or the "watch-<symbol>-<UnixNano>"
\* AddItem makes for an item without one
GivenID(id)          == <<"id", id, 0>>
WatchID(symbol, now) == <<"watch", symbol, now>>

WatchlistItem(id, symbol, target, stop, take, qty, expires, isBuy) ==
    [ID |-> id, Symbol |-> symbol, TargetPrice |-> target, StopLoss |-> stop,
     TakeProfit |-> take, Quantity |-> qty, Status |-> "",
     ExpiresAt |-> expires, TriggeredAt |-> NoTime, OrderID |-> NoOrder.ID,
     IsBuyList |-> isBuy]

\* the items AddItem is called with: buy-list items on AAPL with a target of
\* 100.00 or none, with and without an expiry and an ID, sell-list items on
\* MSFT with a stop at 99.99 and a take-profit at 100.01 or none, and two
\* invalid items
WatchItems ==
    { WatchlistItem("w1", "AAPL", 10000, 0, 0, 10, NoTime, TRUE),
      WatchlistItem("w1", "AAPL", 0, 0, 0, 10, NoTime, TRUE),
      WatchlistItem("w1", "AAPL", 10000, 0, 0, 10, 0, TRUE),
      WatchlistItem("", "AAPL", 10000, 0, 0, 10, NoTime, TRUE),
      WatchlistItem("w2", "MSFT", 0, 9999, 10001, 10, NoTime, FALSE),
      WatchlistItem("w2", "MSFT", 0, 9999, 0, 10, NoTime, FALSE),
      WatchlistItem("w1", "", 10000, 0, 0, 10, NoTime, TRUE),
      WatchlistItem("w1", "AAPL", 10000, 0, 0, 0, NoTime, TRUE) }

ErrSymbolRequired   == "symbol is required"
ErrQuantityPositive == "quantity must be positive"
ErrItemNotFound     == "item not found"

\* no ScanWatchlist call is running.  A call keeps: the active items it has
\* still to check, the quote it fetched for the item checked last (NoQuote
\* when it fetched none), updatedItems, triggeredItems, and the error and
\* list of the last call of the watchlist that returned
NoScan ==
    [pc |-> "idle", activeItems |-> {}, quote |-> NoQuote,
     updatedItems |-> <<>>, triggeredItems |-> <<>>, err |-> Nil,
     returned |-> <<>>]

\* w.items[item.ID] = item
PutItem(I, item) ==
    [i \in DOMAIN I \cup {item.ID} |-> IF i = item.ID THEN item ELSE I[i]]

\* delete(w.items, id)
DeleteItem(I, id) == [i \in DOMAIN I \ {id} |-> I[i]]

WatchlistUnchanged ==
    /\ UNCHANGED <<enabled, limits, orders, positions, account, trades,
                   nextSeq, lastFill, pc, call, last>>
    /\ UNCHANGED <<lockVars, managerVars, polygonVars,
                   scannerVars, calcVars, loggerVars, mon, direct>>

\* AddItem(item); maxItems bounds the items stored
AddItem(item, maxItems) ==
    /\ IF item.Symbol = ""
       THEN scan' = [scan EXCEPT !.err = ErrSymbolRequired] /\ items' = items
       ELSE IF item.Quantity <= 0
       THEN scan' = [scan EXCEPT !.err = ErrQuantityPositive] /\ items' = items
       ELSE LET id == IF item.ID = "" THEN WatchID(item.Symbol, clock)
                      ELSE GivenID(item.ID)
                it == [item EXCEPT !.ID = id,
                                   !.Status = IF item.Status = ""
                                              THEN WatchStatusActive
                                              ELSE item.Status]
            IN  /\ Cardinality(DOMAIN items \cup {id}) <= maxItems
                /\ items' = PutItem(items, it)
                /\ scan' = [scan EXCEPT !.err = Nil]
    /\ UNCHANGED clock
    /\ WatchlistUnchanged

\* RemoveItem(id)
RemoveItem(id) ==
    /\ IF id \notin DOMAIN items
       THEN scan' = [scan EXCEPT !.err = ErrItemNotFound] /\ items' = items
       ELSE scan' = [scan EXCEPT !.err = Nil] /\ items' = DeleteItem(items, id)
    /\ UNCHANGED clock
    /\ WatchlistUnchanged

\* time passes; maxTime bounds the clock
Tick(maxTime) ==
    /\ clock < maxTime
    /\ clock' = clock + 1
    /\ UNCHANGED <<items, scan>>
    /\ WatchlistUnchanged

\* GetActiveItems(): the items of status active
GetActiveItems(I) == {I[i] : i \in {j \in DOMAIN I : I[j].Status = WatchStatusActive}}

\* ScanWatchlist begins with a copy of the active items
ScanWatchlist ==
    /\ scan.pc \in {"idle", "done"}
    /\ scan' = [NoScan EXCEPT !.pc = "check",
                              !.activeItems = GetActiveItems(items)]
    /\ UNCHANGED <<items, clock>>
    /\ WatchlistUnchanged

\* the item's expiry is before now
Expired(item, now) == item.ExpiresAt # NoTime /\ item.ExpiresAt < now

\* Triggered comparing the price and the target by <
Triggered_Below(item, lastPrice) ==
    IF item.IsBuyList
    THEN item.TargetPrice > 0 /\ lastPrice < item.TargetPrice
    ELSE \/ item.StopLoss > 0 /\ lastPrice <= item.StopLoss
         \/ item.TakeProfit > 0 /\ lastPrice >= item.TakeProfit

\* Triggered comparing the price and the levels of a sell-list item by < and >
Triggered_StrictLevels(item, lastPrice) ==
    IF item.IsBuyList
    THEN item.TargetPrice > 0 /\ lastPrice <= item.TargetPrice
    ELSE \/ item.StopLoss > 0 /\ lastPrice < item.StopLoss
         \/ item.TakeProfit > 0 /\ lastPrice > item.TakeProfit

\* the trigger condition of an item at a last price
Triggered(item, lastPrice) ==
    IF item.IsBuyList
    THEN item.TargetPrice > 0 /\ lastPrice <= item.TargetPrice
    ELSE \/ item.StopLoss > 0 /\ lastPrice <= item.StopLoss
         \/ item.TakeProfit > 0 /\ lastPrice >= item.TakeProfit

\* CheckItem marking invalid the item whose quote it cannot fetch
CheckItem_InvalidOnError(item, q) ==
    LET skip == [scan EXCEPT !.activeItems = @ \ {item}, !.quote = NoQuote]
        rest == [skip EXCEPT !.quote = q]
    IN  IF Expired(item, clock)
        THEN [skip EXCEPT !.updatedItems =
                 Append(@, [item EXCEPT !.Status = WatchStatusExpired])]
        ELSE IF q.err # Nil
        THEN [rest EXCEPT !.updatedItems =
                 Append(@, [item EXCEPT !.Status = WatchStatusInvalid])]
        ELSE IF Triggered(item, q.LastPrice)
        THEN LET it == [item EXCEPT !.Status = WatchStatusTriggered,
                                    !.TriggeredAt = clock]
             IN  [rest EXCEPT !.triggeredItems = Append(@, it),
                              !.updatedItems = Append(@, it)]
        ELSE rest

\* CheckItem looking at the price before the expiry
CheckItem_PriceFirst(item, q) ==
    LET skip == [scan EXCEPT !.activeItems = @ \ {item}, !.quote = NoQuote]
        rest == [skip EXCEPT !.quote = q]
    IN  IF q.err = Nil /\ Triggered(item, q.LastPrice)
        THEN LET it == [item EXCEPT !.Status = WatchStatusTriggered,
                                    !.TriggeredAt = clock]
             IN  [rest EXCEPT !.triggeredItems = Append(@, it),
                              !.updatedItems = Append(@, it)]
        ELSE IF Expired(item, clock)
        THEN [skip EXCEPT !.updatedItems =
                 Append(@, [item EXCEPT !.Status = WatchStatusExpired])]
        ELSE rest

\* one turn of the loop of a ScanWatchlist call S, on the active item item,
\* whose quote lookup yields q
CheckItemIn(S, item, q) ==
    LET skip == [S EXCEPT !.activeItems = @ \ {item}, !.quote = NoQuote]
        rest == [skip EXCEPT !.quote = q]
    IN  IF Expired(item, clock)
        THEN [skip EXCEPT !.updatedItems =
                 Append(@, [item EXCEPT !.Status = WatchStatusExpired])]
        ELSE IF q.err # Nil THEN rest
        ELSE IF Triggered(item, q.LastPrice)
        THEN LET it == [item EXCEPT !.Status = WatchStatusTriggered,
                                    !.TriggeredAt = clock]
             IN  [rest EXCEPT !.triggeredItems = Append(@, it),
                              !.updatedItems = Append(@, it)]
        ELSE rest

\* the turn of the ScanWatchlist call of scan
CheckItem(item, q) == CheckItemIn(scan, item, q)

\* the loop over the active items, in the order the copy yields them
ScanCheck ==
    /\ scan.pc = "check"
    /\ IF scan.activeItems = {}
       THEN scan' = [scan EXCEPT !.pc = "store"]
       ELSE \E item \in scan.activeItems, q \in WatchQuotes :
               scan' = CheckItem(item, q)
    /\ UNCHANGED <<items, clock>>
    /\ WatchlistUnchanged

\* the loop storing the updated items, each under the lock, and the return
\* of the triggered items
ScanStore ==
    /\ scan.pc = "store"
    /\ IF scan.updatedItems = <<>>
       THEN /\ scan' = [scan EXCEPT !.pc = "done", !.err = Nil,
                                    !.returned = scan.triggeredItems]
            /\ items' = items
       ELSE /\ items' = PutItem(items, Head(scan.updatedItems))
            /\ scan' = [scan EXCEPT !.updatedItems = Tail(@)]
    /\ UNCHANGED clock
    /\ WatchlistUnchanged

-----------------------------------------------------------------------------
(* Watchlist.ExecuteWatchlistItems and Watchlist.StartWatchlistMonitor *)

\* StartWatchlistMonitor has not been called.  Its goroutine keeps: where it
\* is, whether its context is cancelled, whether a tick waits in ticker.C (a
\* channel of capacity one), and the number of ticks delivered; the
\* ExecuteWatchlistItems call it makes keeps the items it has still to
\* execute, what SubmitOrder returned for the item at hand, its errors, and
\* the errors the last call returned.  submitted is not a variable of the
\* program: it lists the arguments of each SubmitOrder call of the running
\* ExecuteWatchlistItems
NoMonitor ==
    [pc |-> "stopped", cancelled |-> FALSE, tick |-> FALSE, ticks |-> 0,
     triggeredItems |-> <<>>, order |-> NoOrder, err |-> Nil,
     errors |-> <<>>, returned |-> <<>>, submitted |-> <<>>]

\* the variables of the engine's callers, the manager and the Polygon source
MonitorUnchanged ==
    /\ UNCHANGED <<lastFill, pc, call, last>>
    /\ UNCHANGED <<lockVars, managerVars, polygonVars, scannerVars, calcVars,
                   loggerVars, direct>>

EngineUnchanged ==
    UNCHANGED <<enabled, limits, orders, positions, account, trades, nextSeq>>

\* StartWatchlistMonitor(ctx, scanInterval) makes its ticker and enters the
\* loop
StartWatchlistMonitor ==
    /\ mon.pc = "stopped"
    /\ mon' = [mon EXCEPT !.pc = "select"]
    /\ UNCHANGED <<items, scan, clock>>
    /\ EngineUnchanged
    /\ MonitorUnchanged

\* the ticker delivers a tick, unless one still waits in ticker.C; maxCycles
\* bounds the ticks
TickerFires(maxCycles) ==
    /\ mon.pc \notin {"stopped", "returned"}
    /\ ~mon.tick
    /\ mon.ticks < maxCycles
    /\ mon' = [mon EXCEPT !.tick = TRUE, !.ticks = @ + 1]
    /\ UNCHANGED <<items, scan, clock>>
    /\ EngineUnchanged
    /\ MonitorUnchanged

\* the context of StartWatchlistMonitor is cancelled
CancelMonitor ==
    /\ ~mon.cancelled
    /\ mon' = [mon EXCEPT !.cancelled = TRUE]
    /\ UNCHANGED <<items, scan, clock>>
    /\ EngineUnchanged
    /\ MonitorUnchanged

\* MonitorReturn returning although the context is not cancelled
MonitorReturn_Uncancelled ==
    /\ mon.pc = "select"
    /\ mon' = [mon EXCEPT !.pc = "returned"]
    /\ UNCHANGED <<items, scan, clock>>
    /\ EngineUnchanged
    /\ MonitorUnchanged

\* case <-ctx.Done(): return
MonitorReturn ==
    /\ mon.pc = "select"
    /\ mon.cancelled
    /\ mon' = [mon EXCEPT !.pc = "returned"]
    /\ UNCHANGED <<items, scan, clock>>
    /\ EngineUnchanged
    /\ MonitorUnchanged

\* case <-ticker.C: the cycle begins with w.ScanWatchlist(ctx), which copies
\* the active items.  When a tick waits and the context is cancelled the
\* select may take either case
MonitorScan ==
    /\ mon.pc = "select"
    /\ mon.tick
    /\ scan.pc \in {"idle", "done"}
    /\ mon' = [mon EXCEPT !.pc = "scan", !.tick = FALSE]
    /\ scan' = [NoScan EXCEPT !.pc = "check",
                              !.activeItems = GetActiveItems(items)]
    /\ UNCHANGED <<items, clock>>
    /\ EngineUnchanged
    /\ MonitorUnchanged

\* ScanWatchlist has returned (its error is always nil): with triggered
\* items the monitor calls ExecuteWatchlistItems, without any it goes back to
\* the select
MonitorExecute ==
    /\ mon.pc = "scan"
    /\ scan.pc = "done"
    /\ mon' = IF Len(scan.returned) > 0
              THEN [mon EXCEPT !.pc = "execute",
                               !.triggeredItems = scan.returned,
                               !.errors = <<>>, !.submitted = <<>>]
              ELSE [mon EXCEPT !.pc = "select"]
    /\ UNCHANGED <<items, scan, clock>>
    /\ EngineUnchanged
    /\ MonitorUnchanged

\* ExecuteArgs with the buy side for every item
ExecuteArgs_AlwaysBuy(item) ==
    Args(item.Symbol, item.Quantity, 0, OrderTypeMarket, OrderSideBuy)

\* the arguments of the SubmitOrder call ExecuteWatchlistItems makes for item
ExecuteArgs(item) ==
    Args(item.Symbol, item.Quantity, 0, OrderTypeMarket,
         IF item.IsBuyList THEN OrderSideBuy ELSE OrderSideSell)

\* one turn of the loop of ExecuteWatchlistItems as far as the return of
\* w.engine.SubmitOrder, taken as one step of the engine: IsEnabled, the
\* checks, the order made at a time of nows, its quote lookup and fill.
\* maxOrders bounds the orders stored
ExecuteSubmit(nows, maxOrders) ==
    /\ mon.pc = "execute"
    /\ mon.triggeredItems # <<>>
    /\ LET a   == ExecuteArgs(Head(mon.triggeredItems))
           err == IF ~enabled THEN ErrTradeDisabled
                  ELSE ValidateOrder(a, positions, limits)
       IN  IF err # Nil
           THEN /\ mon' = [mon EXCEPT !.pc = "store", !.err = err,
                                      !.order = NoOrder,
                                      !.submitted = Append(@, a)]
                /\ UNCHANGED <<orders, positions, account, trades, nextSeq,
                               clock>>
           ELSE /\ nextSeq <= maxOrders
                /\ \E now \in nows, q \in QuoteOutcomes(a.symbol) :
                     LET S == ApplySubmit(EngineState, a, limits, now,
                                          nextSeq, q)
                     IN  /\ orders'    = S.orders
                         /\ positions' = S.positions
                         /\ account'   = S.account
                         /\ trades'    = S.trades
                         /\ clock'     = now
                         /\ nextSeq'   = nextSeq + 1
                         /\ mon' = [mon EXCEPT !.pc = "store", !.err = Nil,
                                               !.order = S.orders[now],
                                               !.submitted = Append(@, a)]
    /\ UNCHANGED <<enabled, limits, items, scan>>
    /\ MonitorUnchanged

\* ExecutedItem leaving the item without its order ID
ExecutedItem_NoOrderID(item, order) == item

\* the item with the ID of its order
ExecutedItem(item, order) == [item EXCEPT !.OrderID = order.ID]

\* the rest of the turn: an error of SubmitOrder is appended to the errors
\* and the item left as it is stored; without an error the item is stored
\* with the ID of its order
ExecuteStore ==
    /\ mon.pc = "store"
    /\ LET item == Head(mon.triggeredItems)
           next == [mon EXCEPT !.pc = "execute",
                               !.triggeredItems = Tail(@),
                               !.order = NoOrder, !.err = Nil]
       IN  IF mon.err # Nil
           THEN /\ mon' = [next EXCEPT !.errors =
                              Append(@, <<item.Symbol, mon.err>>)]
                /\ items' = items
           ELSE /\ mon' = next
                /\ items' = PutItem(items, ExecutedItem(item, mon.order))
    /\ UNCHANGED <<scan, clock>>
    /\ EngineUnchanged
    /\ MonitorUnchanged

\* ExecuteWatchlistItems returns its errors, which the monitor prints before
\* it goes back to the select
ExecuteReturn ==
    /\ mon.pc = "execute"
    /\ mon.triggeredItems = <<>>
    /\ mon' = [mon EXCEPT !.pc = "select", !.returned = mon.errors]
    /\ UNCHANGED <<items, scan, clock>>
    /\ EngineUnchanged
    /\ MonitorUnchanged

-----------------------------------------------------------------------------
(* a goroutine calling ScanWatchlist and ExecuteWatchlistItems beside the
   monitor *)

\* the goroutine has called nothing.  It keeps: where it is; the
\* ScanWatchlist call it makes, a record like scan; of the
\* ExecuteWatchlistItems call it makes the items it has still to execute, what
\* SubmitOrder returned for the item at hand and its errors; the number of
\* times it has called ScanWatchlist.  submitted is not a variable of the
\* program: it lists the IDs of the items of each SubmitOrder call the
\* goroutine made
NoDirect ==
    [pc |-> "idle", scan |-> NoScan, triggeredItems |-> <<>>,
     order |-> NoOrder, err |-> Nil, errors |-> <<>>, submitted |-> <<>>,
     calls |-> 0]

DirectUnchanged ==
    /\ UNCHANGED <<lastFill, pc, call, last, scan, mon>>
    /\ UNCHANGED <<lockVars, managerVars, polygonVars, scannerVars, calcVars,
                   loggerVars>>

\* the goroutine calls w.ScanWatchlist(ctx), which copies the active items;
\* maxCalls bounds its calls
DirectScanWatchlist(maxCalls) ==
    /\ direct.pc = "idle"
    /\ direct.calls < maxCalls
    /\ direct' = [direct EXCEPT
                    !.pc = "scan", !.calls = @ + 1,
                    !.scan = [NoScan EXCEPT
                                !.pc = "check",
                                !.activeItems = GetActiveItems(items)]]
    /\ UNCHANGED <<items, clock>>
    /\ EngineUnchanged
    /\ DirectUnchanged

\* the loop over the active items of that call
DirectScanCheck ==
    /\ direct.pc = "scan"
    /\ direct.scan.pc = "check"
    /\ IF direct.scan.activeItems = {}
       THEN direct' = [direct EXCEPT !.scan.pc = "store"]
       ELSE \E item \in direct.scan.activeItems, q \in WatchQuotes :
               direct' = [direct EXCEPT
                            !.scan = CheckItemIn(direct.scan, item, q)]
    /\ UNCHANGED <<items, clock>>
    /\ EngineUnchanged
    /\ DirectUnchanged

\* the loop storing the updated items of that call, each under the lock, and
\* the return of its triggered items
DirectScanStore ==
    /\ direct.pc = "scan"
    /\ direct.scan.pc = "store"
    /\ IF direct.scan.updatedItems = <<>>
       THEN /\ direct' = [direct EXCEPT
                            !.scan.pc = "done", !.scan.err = Nil,
                            !.scan.returned = direct.scan.triggeredItems]
            /\ items' = items
       ELSE /\ items' = PutItem(items, Head(direct.scan.updatedItems))
            /\ direct' = [direct EXCEPT !.scan.updatedItems = Tail(@)]
    /\ UNCHANGED clock
    /\ EngineUnchanged
    /\ DirectUnchanged

\* the goroutine calls w.ExecuteWatchlistItems(ctx, triggered) with the items
\* its scan returned
DirectExecute ==
    /\ direct.pc = "scan"
    /\ direct.scan.pc = "done"
    /\ direct' = [direct EXCEPT !.pc = "execute",
                                !.triggeredItems = direct.scan.returned,
                                !.errors = <<>>]
    /\ UNCHANGED <<items, clock>>
    /\ EngineUnchanged
    /\ DirectUnchanged

\* one turn of the loop of that ExecuteWatchlistItems as far as the return of
\* w.engine.SubmitOrder, as in ExecuteSubmit
DirectSubmit(nows, maxOrders) ==
    /\ direct.pc = "execute"
    /\ direct.triggeredItems # <<>>
    /\ LET item == Head(direct.triggeredItems)
           a    == ExecuteArgs(item)
           err  == IF ~enabled THEN ErrTradeDisabled
                   ELSE ValidateOrder(a, positions, limits)
       IN  IF err # Nil
           THEN /\ direct' = [direct EXCEPT
                                !.pc = "store", !.err = err,
                                !.order = NoOrder,
                                !.submitted = Append(@, item.ID)]
                /\ UNCHANGED <<orders, positions, account, trades, nextSeq,
                               clock>>
           ELSE /\ nextSeq <= maxOrders
                /\ \E now \in nows, q \in QuoteOutcomes(a.symbol) :
                     LET S == ApplySubmit(EngineState, a, limits, now,
                                          nextSeq, q)
                     IN  /\ orders'    = S.orders
                         /\ positions' = S.positions
                         /\ account'   = S.account
                         /\ trades'    = S.trades
                         /\ clock'     = now
                         /\ nextSeq'   = nextSeq + 1
                         /\ direct' = [direct EXCEPT
                                         !.pc = "store", !.err = Nil,
                                         !.order = S.orders[now],
                                         !.submitted = Append(@, item.ID)]
    /\ UNCHANGED <<enabled, limits, items>>
    /\ DirectUnchanged

\* the rest of the turn, as in ExecuteStore
DirectExecuteStore ==
    /\ direct.pc = "store"
    /\ LET item == Head(direct.triggeredItems)
           next == [direct EXCEPT !.pc = "execute",
                                  !.triggeredItems = Tail(@),
                                  !.order = NoOrder, !.err = Nil]
       IN  IF direct.err # Nil
           THEN /\ direct' = [next EXCEPT !.errors =
                                 Append(@, <<item.Symbol, direct.err>>)]
                /\ items' = items
           ELSE /\ direct' = next
                /\ items' = PutItem(items, ExecutedItem(item, direct.order))
    /\ UNCHANGED clock
    /\ EngineUnchanged
    /\ DirectUnchanged

\* that ExecuteWatchlistItems returns its errors to the goroutine
DirectExecuteReturn ==
    /\ direct.pc = "execute"
    /\ direct.triggeredItems = <<>>
    /\ direct' = [direct EXCEPT !.pc = "idle"]
    /\ UNCHANGED <<items, clock>>
    /\ EngineUnchanged
    /\ DirectUnchanged

\* NewWatchlist(engine, dataManager)
NewWatchlist ==
    /\ items = <<>>
    /\ scan = NoScan
    /\ mon = NoMonitor
    /\ direct = NoDirect

-----------------------------------------------------------------------------
(* Scanner.ScanMultipleSymbols *)

\* workers := make(chan struct{}, 10)
WorkerSlots == 10

\* what the ScanSymbol call of a goroutine returns: an error, no result, or
\* at least one result
ScanError   == "error"
ScanNothing == "nothing"
ScanSignals == "signals"

\* no ScanMultipleSymbols call is running.  A call keeps: its symbols;
\* outcome, which is not a variable of the program: what ScanSymbol is going
\* to return for each symbol; the number i of goroutines started; for each
\* symbol the position g of its goroutine ("new" before it is started, then
\* "scan", then "lock" and "store" around the write of its results, and
\* "done"); the number of values in workers; the counter
\* of wg; the goroutine holding mu (0 for none); the errors in errorsChan;
\* the results map; and the error returned.  A call whose ScanSymbol calls
\* are followed step by step keeps its strategyName and, in ss, the local
\* variables of the ScanSymbol call of each goroutine
NoBatch ==
    [pc |-> "idle", symbols |-> <<>>, outcome |-> <<>>, i |-> 0, g |-> <<>>,
     workers |-> 0, wg |-> 0, mu |-> 0, errorsChan |-> <<>>,
     results |-> <<>>, err |-> Nil, strategyName |-> "", ss |-> <<>>]

ScannerUnchanged ==
    /\ UNCHANGED <<enabled, limits, orders, positions, account, trades,
                   clock, nextSeq, lastFill, pc, call, last>>
    /\ UNCHANGED <<lockVars, managerVars, polygonVars, watchlistVars,
                   calcVars, loggerVars>>
    /\ UNCHANGED strategies

\* the error ScanMultipleSymbols makes of a failed scan of symbol
ScanFailed(symbol) == <<"failed to scan symbol", symbol>>

\* ScanMultipleSymbols(ctx, symbols, ...): the map, the mutex, the wait
\* group and the two channels are made
ScanMultipleSymbols(symbols, outcome) ==
    /\ sms.pc \in {"idle", "returned"}
    /\ sms' = [NoBatch EXCEPT !.pc = "loop", !.symbols = symbols,
                              !.outcome = outcome,
                              !.g = [k \in DOMAIN symbols |-> "new"]]
    /\ ScannerUnchanged

\* SpawnWorker not waiting for a slot
SpawnWorker_NoSlot(slots) ==
    /\ sms.pc = "loop"
    /\ sms.i < Len(sms.symbols)
    /\ sms' = [sms EXCEPT !.wg = @ + 1, !.workers = @ + 1, !.i = @ + 1,
                          !.g[sms.i + 1] = "scan"]
    /\ ScannerUnchanged

\* one turn of the loop over the symbols: wg.Add(1), a value sent to
\* workers, which blocks while the channel holds slots values, and the
\* goroutine started
SpawnWorker(slots) ==
    /\ sms.pc = "loop"
    /\ sms.i < Len(sms.symbols)
    /\ sms.workers < slots
    /\ sms' = [sms EXCEPT !.wg = @ + 1, !.workers = @ + 1, !.i = @ + 1,
                          !.g[sms.i + 1] = "scan"]
    /\ ScannerUnchanged

\* the loop has started a goroutine for every symbol
LoopEnd ==
    /\ sms.pc = "loop"
    /\ sms.i = Len(sms.symbols)
    /\ sms' = [sms EXCEPT !.pc = "wait"]
    /\ ScannerUnchanged

\* the deferred calls of goroutine k, which run when it returns: a value is
\* taken from workers, then wg.Done()
WorkerExit(S, k) ==
    [S EXCEPT !.workers = @ - 1, !.wg = @ - 1, !.g[k] = "done"]

\* ScanSymbolReturn dropping the error
ScanSymbolReturn_ErrorDropped(k) ==
    /\ sms.g[k] = "scan"
    /\ sms' = IF sms.outcome[k] = ScanSignals
              THEN [sms EXCEPT !.g[k] = "lock"]
              ELSE WorkerExit(sms, k)
    /\ ScannerUnchanged

\* ScanSymbol returns in goroutine k.  An error is sent to errorsChan
\* unless the channel is full (select with a default case) and the
\* goroutine returns; so does a goroutine without results; one with results
\* goes on to store them
ScanSymbolReturn(k) ==
    /\ sms.g[k] = "scan"
    /\ sms' = IF sms.outcome[k] = ScanError
              THEN WorkerExit(
                     [sms EXCEPT !.errorsChan =
                         IF Len(@) < Len(sms.symbols)
                         THEN Append(@, ScanFailed(sms.symbols[k]))
                         ELSE @], k)
              ELSE IF sms.outcome[k] = ScanSignals
              THEN [sms EXCEPT !.g[k] = "lock"]
              ELSE WorkerExit(sms, k)
    /\ ScannerUnchanged

\* mu.Lock() in goroutine k
ResultLock(k) ==
    /\ sms.g[k] = "lock"
    /\ sms.mu = 0
    /\ sms' = [sms EXCEPT !.mu = k, !.g[k] = "store"]
    /\ ScannerUnchanged

\* results[symbol] = symbolResults; mu.Unlock(); the goroutine returns
ResultStore(k) ==
    /\ sms.g[k] = "store"
    /\ sms' = WorkerExit(
                [sms EXCEPT
                   !.results = [x \in DOMAIN @ \cup {sms.symbols[k]} |->
                                  IF x = sms.symbols[k] THEN sms.outcome[k]
                                  ELSE @[x]],
                   !.mu = 0], k)
    /\ ScannerUnchanged

\* wg.Wait() returns, errorsChan is closed, and the call returns the results
\* with the first error of the channel, or with nil from the empty closed
\* channel
BatchReturn ==
    /\ sms.pc = "wait"
    /\ sms.wg = 0
    /\ sms' = [sms EXCEPT !.pc = "returned",
                          !.err = IF sms.errorsChan # <<>>
                                  THEN Head(sms.errorsChan) ELSE Nil]
    /\ ScannerUnchanged

-----------------------------------------------------------------------------
(* Scanner.AddStrategy and Scanner.ScanSymbol *)

\* a Strategy with the weights of its indicators; of an IndicatorConfig the
\* model keeps the Weight
Strategy(name, isEnabled, weights) ==
    [Name |-> name, Enabled |-> isEnabled,
     Indicators |-> [i \in DOMAIN weights |-> [Weight |-> weights[i]]]]

StrategyUnchanged ==
    /\ UNCHANGED <<enabled, limits, orders, positions, account, trades,
                   clock, nextSeq, lastFill, pc, call, last>>
    /\ UNCHANGED <<lockVars, managerVars, polygonVars, watchlistVars,
                   calcVars, loggerVars>>

\* AddStrategy(strategy): a name already stored is an error.  The strategy
\* stored and the strategies GetStrategy returns share the array of
\* Indicators
AddStrategy(strategy) ==
    /\ strategies' =
          IF strategy.Name \in DOMAIN strategies THEN strategies
          ELSE [n \in DOMAIN strategies \cup {strategy.Name} |->
                  IF n = strategy.Name THEN strategy ELSE strategies[n]]
    /\ UNCHANGED sms
    /\ StrategyUnchanged

\* the ScanSymbol call of a goroutine has not begun: it keeps where it is,
\* its index in the loops over strategy.Indicators, and totalWeight
NoSymbolScan == [pc |-> "get", i |-> 0, totalWeight |-> F(0)]

\* ScanMultipleSymbols(ctx, symbols, strategyName, ...), with the ScanSymbol
\* calls of its goroutines followed step by step
ScanMultipleSymbolsWith(strategyName, symbols, outcome) ==
    /\ sms.pc \in {"idle", "returned"}
    /\ sms' = [NoBatch EXCEPT !.pc = "loop", !.symbols = symbols,
                              !.outcome = outcome,
                              !.g = [k \in DOMAIN symbols |-> "new"],
                              !.strategyName = strategyName,
                              !.ss = [k \in DOMAIN symbols |-> NoSymbolScan]]
    /\ ScannerUnchanged

\* ScanSymbol in goroutine k as far as the loops over the indicators:
\* GetStrategy, the check of strategy.Enabled, and GetStockData, which fails
\* or returns no data in a scan whose outcome is an error.  The scan of a
\* strategy that is not stored or not enabled fails whatever its data
ScanSymbolGet(k) ==
    /\ sms.g[k] = "scan"
    /\ sms.ss[k].pc = "get"
    /\ sms' = IF \/ sms.strategyName \notin DOMAIN strategies
                 \/ ~strategies[sms.strategyName].Enabled
              THEN [sms EXCEPT !.ss[k].pc = "return",
                               !.outcome[k] = ScanError]
              ELSE IF sms.outcome[k] = ScanError
              THEN [sms EXCEPT !.ss[k].pc = "return"]
              ELSE [sms EXCEPT !.ss[k].pc = "sum"]
    /\ ScannerUnchanged

\* one turn of the loop adding the weights, or its end: with a total of zero
\* the goroutine goes on to set the weights
ScanSymbolSum(k) ==
    /\ sms.g[k] = "scan"
    /\ sms.ss[k].pc = "sum"
    /\ LET ind == strategies[sms.strategyName].Indicators
           l   == sms.ss[k]
       IN  sms' = IF l.i < Len(ind)
                  THEN [sms EXCEPT
                          !.ss[k].i = @ + 1,
                          !.ss[k].totalWeight = FAdd(@, ind[l.i + 1].Weight)]
                  ELSE IF l.totalWeight = F(0)
                  THEN [sms EXCEPT !.ss[k].pc = "write", !.ss[k].i = 0]
                  ELSE [sms EXCEPT !.ss[k].pc = "return"]
    /\ ScannerUnchanged

\* one turn of the loop setting the weights, or its end:
\* strategy.Indicators[i].Weight = 1.0 / float64(len(strategy.Indicators))
\* writes the array the stored strategy has; then totalWeight = 1.0
ScanSymbolWrite(k) ==
    /\ sms.g[k] = "scan"
    /\ sms.ss[k].pc = "write"
    /\ LET ind == strategies[sms.strategyName].Indicators
           i   == sms.ss[k].i
       IN  IF i < Len(ind)
           THEN /\ strategies' =
                      [strategies EXCEPT
                         ![sms.strategyName].Indicators[i + 1].Weight =
                            FDiv(F(1), F(Len(ind)))]
                /\ sms' = [sms EXCEPT !.ss[k].i = @ + 1]
           ELSE /\ strategies' = strategies
                /\ sms' = [sms EXCEPT !.ss[k].pc = "return",
                                      !.ss[k].totalWeight = F(1)]
    /\ StrategyUnchanged

\* the rest of ScanSymbol in goroutine k, the loop evaluating the
\* indicators, and its return
ScanSymbolEvaluate(k) ==
    /\ sms.ss[k].pc = "return"
    /\ ScanSymbolReturn(k)

\* NewScanner(registry, dataManager)
NewScanner == sms = NoBatch /\ strategies = <<>>

-----------------------------------------------------------------------------
(* BaseTradingEngine.GetTradeStats *)

\* x < y on float64 values
FLess(x, y) == x.n * y.d < y.n * x.d

\* the zero value of TradeStats
ZeroStats ==
    [TotalTrades |-> 0, WinningTrades |-> 0, LosingTrades |-> 0,
     WinRate |-> F(0), AverageProfit |-> F(0), AverageLoss |-> F(0),
     ProfitFactor |-> F(0), LargestWin |-> F(0), LargestLoss |-> F(0),
     AverageHoldTime |-> F(0), SharpRatio |-> F(0),
     MaxDrawdownValue |-> F(0), MaxDrawdownPercent |-> F(0)]

\* the filter keeping every trade of e.trades
FilterTrades_All(T, startTime, endTime) == T

\* the trades of T opened after startTime and, if closed, closed before
\* endTime
FilterTrades(T, startTime, endTime) ==
    SelectSeq(T, LAMBDA trade :
        /\ trade.OpenedAt > startTime
        /\ (trade.ClosedAt = NoTime \/ trade.ClosedAt < endTime))

\* the local variables of GetTradeStats before its second loop
NoTally ==
    [totalProfit |-> F(0), totalLoss |-> F(0),
     sumProfits |-> F(0), sumLosses |-> F(0),
     winCount |-> 0, lossCount |-> 0,
     largestWin |-> F(0), largestLoss |-> F(0),
     totalHoldTime |-> F(0)]

\* one round of the second loop
TallyTrade(acc, trade) ==
    IF trade.ClosedAt = NoTime
    THEN acc
    ELSE LET pnl  == trade.RealizedPnL
             held == [acc EXCEPT !.totalHoldTime = FAdd(@, trade.HoldTime)]
         IN  IF FLess(F(0), pnl)
             THEN [held EXCEPT
                     !.winCount    = @ + 1,
                     !.sumProfits  = FAdd(@, pnl),
                     !.totalProfit = FAdd(@, pnl),
                     !.largestWin  = IF FLess(@, pnl) THEN pnl ELSE @]
             ELSE IF FLess(pnl, F(0))
             THEN [held EXCEPT
                     !.lossCount   = @ + 1,
                     !.sumLosses   = FAdd(@, FSub(F(0), pnl)),
                     !.totalLoss   = FAdd(@, pnl),
                     !.largestLoss = IF FLess(pnl, @) THEN pnl ELSE @]
             ELSE held

\* the second loop over filteredTrades
RECURSIVE Tally(_, _)
Tally(filteredTrades, acc) ==
    IF filteredTrades = <<>>
    THEN acc
    ELSE Tally(Tail(filteredTrades), TallyTrade(acc, Head(filteredTrades)))

\* what GetTradeStats(ctx, startTime, endTime) returns on the trades T;
\* divisors is not returned by the program: it holds the divisor of every
\* division the call carries out
TradeStats(T, startTime, endTime) ==
    LET filteredTrades == FilterTrades(T, startTime, endTime)
        total == Len(filteredTrades)
        t     == Tally(filteredTrades, NoTally)
    IN  IF total = 0
        THEN [stats |-> ZeroStats, err |-> Nil, divisors |-> {}]
        ELSE [stats |->
                [ZeroStats EXCEPT
                   !.TotalTrades   = total,
                   !.WinningTrades = t.winCount,
                   !.LosingTrades  = t.lossCount,
                   !.AverageProfit =
                       IF t.winCount > 0
                       THEN FDiv(t.sumProfits, F(t.winCount)) ELSE @,
                   !.AverageLoss =
                       IF t.lossCount > 0
                       THEN FDiv(t.sumLosses, F(t.lossCount)) ELSE @,
                   !.WinRate =
                       IF total > 0 THEN FDiv(F(t.winCount), F(total)) ELSE @,
                   !.AverageHoldTime =
                       IF total > 0
                       THEN FDiv(t.totalHoldTime, F(total)) ELSE @,
                   !.ProfitFactor =
                       IF FLess(F(0), t.sumLosses)
                       THEN FDiv(t.sumProfits, t.sumLosses) ELSE @,
                   !.LargestWin  = t.largestWin,
                   !.LargestLoss = t.largestLoss],
              err |-> Nil,
              divisors |->
                   (IF t.winCount > 0 THEN {F(t.winCount)} ELSE {})
              \cup (IF t.lossCount > 0 THEN {F(t.lossCount)} ELSE {})
              \cup (IF total > 0 THEN {F(total)} ELSE {})
              \cup (IF FLess(F(0), t.sumLosses) THEN {t.sumLosses} ELSE {})]

\* GetTradeStats(ctx, startTime, endTime), under the read lock
GetTradeStats(startTime, endTime) ==
    /\ mu = 0
    /\ LET r == TradeStats(trades, startTime, endTime)
       IN  calc' = [op |-> "GetTradeStats",
                    startTime |-> startTime, endTime |-> endTime,
                    stats |-> r.stats, err |-> r.err,
                    divisors |-> r.divisors]
    /\ UNCHANGED <<enabled, limits, orders, positions, account, trades,
                   clock, nextSeq, lastFill, pc, call, last>>
    /\ UNCHANGED <<lockVars, managerVars, polygonVars, watchlistVars,
                   scannerVars, loggerVars>>

-----------------------------------------------------------------------------
(* MACD.Calculate *)

ErrNotEnoughData == "not enough data points for MACD calculation"

\* the sum of the float64 values of a slice
RECURSIVE SumSeq(_)
SumSeq(xs) == IF xs = <<>> THEN F(0) ELSE FAdd(Head(xs), SumSeq(Tail(xs)))

\* calculateEMA(prices, period): zero before index period-1, the mean of the
\* first period prices at index period-1, and prices[i]*k + ema[i-1]*(1-k)
\* after it.  Slices are indexed from 1 here, so index i of the program is
\* i + 1.  Calculate calls it with period <= len(prices) only.
calculateEMA(prices, period) ==
    LET k == Rat(2, period + 1)
        first == IF period < Len(prices) THEN period ELSE Len(prices)
        sum == SumSeq(SubSeq(prices, 1, first))
        ema[i \in 1..Len(prices)] ==
            IF i < period THEN F(0)
            ELSE IF i = period THEN FDiv(sum, F(period))
            ELSE FAdd(FMul(prices[i], k), FMul(ema[i - 1], FSub(F(1), k)))
    IN  [i \in 1..Len(prices) |-> ema[i]]

\* copy(dst[offset:], src) on a slice dst
CopyAt(dst, offset, src) ==
    [i \in 1..Len(dst) |->
        IF i > offset /\ i - offset <= Len(src) THEN src[i - offset]
        ELSE dst[i]]

\* what Calculate returns on the closing prices of data, for a MACD with
\* the periods fastPeriod < slowPeriod and signalPeriod
Calculate(prices, fastPeriod, slowPeriod, signalPeriod) ==
    IF Len(prices) < slowPeriod + signalPeriod
    THEN [err |-> ErrNotEnoughData,
          macd |-> <<>>, signal |-> <<>>, histogram |-> <<>>]
    ELSE LET n == Len(prices)
             fastEMA == calculateEMA(prices, fastPeriod)
             slowEMA == calculateEMA(prices, slowPeriod)
             macdLine == [i \in 1..n |->
                            IF i - 1 < slowPeriod - 1 THEN F(0)
                            ELSE FSub(fastEMA[i], slowEMA[i])]
             signalLine ==
                 calculateEMA(SubSeq(macdLine, slowPeriod, n), signalPeriod)
             fullSignalLine ==
                 CopyAt([i \in 1..n |-> F(0)],
                        slowPeriod + signalPeriod - 2, signalLine)
             histogram == [i \in 1..n |->
                             IF i - 1 < slowPeriod + signalPeriod - 2 THEN F(0)
                             ELSE FSub(macdLine[i], fullSignalLine[i])]
         IN  [err |-> Nil, macd |-> macdLine,
              signal |-> fullSignalLine, histogram |-> histogram]

\* NewMACD with the three periods, and Calculate on bars with the closing
\* prices prices
MACDCalculate(prices, fastPeriod, slowPeriod, signalPeriod) ==
    /\ fastPeriod > 0 /\ slowPeriod > 0 /\ signalPeriod > 0
    /\ fastPeriod < slowPeriod
    /\ LET r == Calculate(prices, fastPeriod, slowPeriod, signalPeriod)
       IN  calc' = [op |-> "MACD", prices |-> prices,
                    fastPeriod |-> fastPeriod, slowPeriod |-> slowPeriod,
                    signalPeriod |-> signalPeriod,
                    err |-> r.err, macd |-> r.macd,
                    signal |-> r.signal, histogram |-> r.histogram]
    /\ UNCHANGED <<enabled, limits, orders, positions, account, trades,
                   clock, nextSeq, lastFill, pc, call, last>>
    /\ UNCHANGED <<lockVars, managerVars, polygonVars, watchlistVars,
                   scannerVars, loggerVars>>

-----------------------------------------------------------------------------
(* defaultTradeLogger *)

\* Strings are sequences of runes here, and a file is the sequence of the
\* runes written to it.  Days are numbered from 1; 0 is the zero time.Time.
ZeroDay == 0

\* t.Format("2006-01-02")
FormatDay(day) ==
    IF day = ZeroDay THEN "0001-01-01"
    ELSE IF day = 1 THEN "2024-01-01"
    ELSE IF day = 2 THEN "2024-01-02"
    ELSE IF day = 3 THEN "2024-01-03"
    ELSE "2024-01-04"

LogDays == ZeroDay..(MaxDay + 1)

\* the day a formatted time stands for; no day for any other text
ParseDay(text) ==
    IF \E d \in LogDays : FormatDay(d) = text
    THEN CHOOSE d \in LogDays : FormatDay(d) = text
    ELSE -1

TypeBuy      == <<"buy">>
TypeSell     == <<"sell">>
TypePosition == <<"position">>

ErrMarshal == "json: unsupported value"
ErrSyntax  == "invalid character"

\* the zero TradeLogEntry; Finite stands for the float64 fields: FALSE when
\* one of them is NaN or an infinity
ZeroEntry ==
    [Type |-> <<>>, Timestamp |-> ZeroDay, Symbol |-> <<>>, Finite |-> TRUE]

\* a JSON string written without escaping its runes
JSONString_Raw(str) == <<"\"">> \o str \o <<"\"">>

\* the runes json.Marshal writes for the runes of a string
RECURSIVE Escape(_)
Escape(str) ==
    IF str = <<>> THEN <<>>
    ELSE LET c == Head(str)
             e == IF c = "\n" THEN <<"\\", "n">>
                  ELSE IF c \in {"\"", "\\"} THEN <<"\\", c>>
                  ELSE <<c>>
         IN  e \o Escape(Tail(str))

\* a JSON string as json.Marshal writes it
JSONString(str) == <<"\"">> \o Escape(str) \o <<"\"">>

\* json.Marshal(entry): the fields in the order of the struct, symbol left
\* out when empty; an error for a float64 that is not finite
Marshal(entry) ==
    IF ~entry.Finite
    THEN [err |-> ErrMarshal, bytes |-> <<>>]
    ELSE [err |-> Nil,
          bytes |->
              <<"{">> \o JSONString(<<"type">>) \o <<":">> \o JSONString(entry.Type)
              \o <<",">> \o JSONString(<<"timestamp">>) \o <<":">>
              \o JSONString(<<FormatDay(entry.Timestamp)>>)
              \o (IF entry.Symbol = <<>> THEN <<>>
                  ELSE <<",">> \o JSONString(<<"symbol">>) \o <<":">>
                       \o JSONString(entry.Symbol))
              \o <<"}">>]

\* the JSON string of rs whose opening quote is before position i; acc is
\* what has been read of it
RECURSIVE ReadString(_, _, _)
ReadString(rs, i, acc) ==
    IF i > Len(rs) THEN [ok |-> FALSE]
    ELSE IF rs[i] = "\"" THEN [ok |-> TRUE, value |-> acc, next |-> i + 1]
    ELSE IF rs[i] = "\n" THEN [ok |-> FALSE]
    ELSE IF rs[i] = "\\"
    THEN IF i + 1 > Len(rs) THEN [ok |-> FALSE]
         ELSE IF rs[i + 1] = "n"
              THEN ReadString(rs, i + 2, Append(acc, "\n"))
              ELSE IF rs[i + 1] \in {"\"", "\\"}
                   THEN ReadString(rs, i + 2, Append(acc, rs[i + 1]))
                   ELSE [ok |-> FALSE]
    ELSE ReadString(rs, i + 1, Append(acc, rs[i]))

\* entry with the field of the JSON key set to value; other keys are
\* skipped
SetField(entry, key, value) ==
    IF key = <<"type">> THEN [ok |-> TRUE, entry |-> [entry EXCEPT !.Type = value]]
    ELSE IF key = <<"symbol">>
    THEN [ok |-> TRUE, entry |-> [entry EXCEPT !.Symbol = value]]
    ELSE IF key = <<"timestamp">>
    THEN IF Len(value) = 1 /\ ParseDay(value[1]) >= 0
         THEN [ok |-> TRUE,
               entry |-> [entry EXCEPT !.Timestamp = ParseDay(value[1])]]
         ELSE [ok |-> FALSE]
    ELSE [ok |-> TRUE, entry |-> entry]

\* the members of a JSON object from position i of rs on, up to its brace
RECURSIVE ReadMembers(_, _, _)
ReadMembers(rs, i, entry) ==
    IF i > Len(rs) \/ rs[i] # "\"" THEN [ok |-> FALSE]
    ELSE LET key == ReadString(rs, i + 1, <<>>)
         IN  IF ~key.ok THEN [ok |-> FALSE]
             ELSE IF key.next + 1 > Len(rs) \/ rs[key.next] # ":"
                     \/ rs[key.next + 1] # "\""
             THEN [ok |-> FALSE]
             ELSE LET value == ReadString(rs, key.next + 2, <<>>)
                  IN  IF ~value.ok THEN [ok |-> FALSE]
                      ELSE LET set == SetField(entry, key.value, value.value)
                           IN  IF ~set.ok \/ value.next > Len(rs)
                               THEN [ok |-> FALSE]
                               ELSE IF rs[value.next] = ","
                               THEN ReadMembers(rs, value.next + 1, set.entry)
                               ELSE IF rs[value.next] = "}"
                                       /\ value.next = Len(rs)
                               THEN [ok |-> TRUE, entry |-> set.entry]
                               ELSE [ok |-> FALSE]

\* json.Unmarshal(line, &entry) on a zero entry
Unmarshal(line) ==
    IF line = <<>> \/ line[1] # "{"
    THEN [err |-> ErrSyntax, entry |-> ZeroEntry]
    ELSE LET r == ReadMembers(line, 2, ZeroEntry)
         IN  IF r.ok THEN [err |-> Nil, entry |-> r.entry]
             ELSE [err |-> ErrSyntax, entry |-> ZeroEntry]

\* splitLines(s): the runes between the line feeds, and what follows the
\* last line feed if it is not empty
RECURSIVE SplitFrom(_, _, _)
SplitFrom(rs, line, lines) ==
    IF rs = <<>>
    THEN IF line # <<>> THEN Append(lines, line) ELSE lines
    ELSE IF Head(rs) = "\n"
         THEN SplitFrom(Tail(rs), <<>>, Append(lines, line))
         ELSE SplitFrom(Tail(rs), Append(line, Head(rs)), lines)

splitLines(rs) == SplitFrom(rs, <<>>, <<>>)

\* the path of the log file of a day
LogPath(day) == FormatDay(day)

\* the logger before NewTradeLogger has run; now is the day time.Now() is
\* on, calls the calls made so far with what they returned and last the
\* call that returned last (calls and last are not fields of the program)
NoLast_Log == [op |-> "none"]

\* setCurrentDay(day) on the logger T: the file of the day is opened for
\* appending, and made if it is not there, unless it is the open one
setCurrentDay(T, day) ==
    IF FormatDay(T.currentDay) = FormatDay(day) /\ T.jsonFile # ""
    THEN T
    ELSE [T EXCEPT
            !.currentDay = day,
            !.jsonFile = LogPath(day),
            !.files = IF LogPath(day) \in DOMAIN T.files THEN @
                      ELSE [f \in DOMAIN @ \cup {LogPath(day)} |->
                              IF f = LogPath(day) THEN <<>> ELSE @[f]]]

\* the bytes of an entry written without escaping its strings
EntryBytes_Raw(entry) ==
    IF ~entry.Finite
    THEN [err |-> ErrMarshal, bytes |-> <<>>]
    ELSE [err |-> Nil,
          bytes |->
              <<"{">> \o JSONString(<<"type">>) \o <<":">> \o JSONString_Raw(entry.Type)
              \o <<",">> \o JSONString(<<"timestamp">>) \o <<":">>
              \o JSONString(<<FormatDay(entry.Timestamp)>>)
              \o (IF entry.Symbol = <<>> THEN <<>>
                  ELSE <<",">> \o JSONString(<<"symbol">>) \o <<":">>
                       \o JSONString_Raw(entry.Symbol))
              \o <<"}">>]

\* the bytes logEntry writes for an entry
EntryBytes(entry) == Marshal(entry)

\* logEntry(entry) on the logger T: [T |-> the logger after it, err |-> what
\* it returns]
logEntry(T, entry) ==
    LET stamped == IF entry.Timestamp = ZeroDay
                   THEN [entry EXCEPT !.Timestamp = T.now] ELSE entry
        T1 == setCurrentDay(T, stamped.Timestamp)
        m  == EntryBytes(stamped)
    IN  IF m.err # Nil
        THEN [T |-> T1, err |-> m.err]
        ELSE [T |-> [T1 EXCEPT !.files[T1.jsonFile] = @ \o m.bytes \o <<"\n">>],
              err |-> Nil]

LoggerUnchanged ==
    /\ UNCHANGED <<enabled, limits, orders, positions, account, trades,
                   clock, nextSeq, lastFill, pc, call, last>>
    /\ UNCHANGED <<lockVars, managerVars, polygonVars, watchlistVars,
                   scannerVars, calcVars>>

\* a call of method with entry returns: the logger after it, with the call
\* appended to calls
Logged(method, type, entry) ==
    LET r == logEntry(tl, [entry EXCEPT !.Type = type])
    IN  /\ tl' = [r.T EXCEPT
                    !.calls = Append(@, [method |-> method, entry |-> entry,
                                        now |-> tl.now, err |-> r.err]),
                    !.last = [op |-> method, err |-> r.err]]
        /\ LoggerUnchanged

LogBuy(entry)      == Logged("LogBuy", TypeBuy, entry)
LogSell(entry)     == Logged("LogSell", TypeSell, entry)
LogPosition(entry) == Logged("LogPosition", TypePosition, entry)

\* what GetDailyLogs(date) returns on the files: the entries of the lines of
\* the file of date that parse, none if there is no such file
DailyLogs(files, date) ==
    IF LogPath(date) \notin DOMAIN files
    THEN <<>>
    ELSE LET lines  == splitLines(files[LogPath(date)])
             filled == SelectSeq(lines, LAMBDA line : line # <<>>)
             parsed == [i \in 1..Len(filled) |-> Unmarshal(filled[i])]
             good   == SelectSeq(parsed, LAMBDA r : r.err = Nil)
         IN  [i \in 1..Len(good) |-> good[i].entry]

GetDailyLogs(date) ==
    /\ tl' = [tl EXCEPT !.last = [op |-> "GetDailyLogs", date |-> date,
                                  entries |-> DailyLogs(tl.files, date),
                                  err |-> Nil]]
    /\ LoggerUnchanged

\* time.Now() reaches the next day
Midnight(maxDay) ==
    /\ tl.now < maxDay
    /\ tl' = [tl EXCEPT !.now = @ + 1]
    /\ LoggerUnchanged

\* NewTradeLogger(baseDir, logger) on an empty directory, on day 1
NewTradeLogger ==
    tl = setCurrentDay([now |-> 1, currentDay |-> ZeroDay, jsonFile |-> "",
                        files |-> <<>>, calls |-> <<>>, last |-> NoLast_Log],
                       1)

-----------------------------------------------------------------------------
(* Specifications *)

\* NewBaseTradingEngine(dataManager, brokerConfig, lim)
NewBaseTradingEngine(lim) ==
    /\ enabled = FALSE
    /\ limits = lim
    /\ orders = <<>>
    /\ positions = <<>>
    /\ account = [ID |-> "", RealizedPnL |-> F(0), UnrealizedPnL |-> F(0),
                  TotalPnL |-> F(0), Cash |-> F(0), BuyingPower |-> F(0),
                  Equity |-> F(0), MaxDailyTrades |-> 0]
    /\ trades = <<>>
    /\ clock = 0
    /\ nextSeq = 1
    /\ lastFill = [s \in Symbols \cup {""} |-> [side |-> "none"]]
    /\ pc = [t \in Threads |-> "idle"]
    /\ call = [t \in Threads |-> NoCall]
    /\ last = NoLast
    /\ mu = 0
    /\ rlock = {}
    /\ local = [t \in Threads |-> NoLocal]
    /\ serial = EngineState

\* the orders and positions: one caller of SubmitOrder, with Enable and
\* Disable called beside it
Next ==
    \/ \E a \in SubmitArgs : SubmitOrder(1, a)
    \/ SubmitLocked(1, Ticking, MaxOrders)
    \/ Enable
    \/ Disable

\* the manager, the Polygon source and the watchlist as constructed
NewCollaborators ==
    /\ NewManager
    /\ NewPolygonDataSource(DataSourceConfig(0, 0))
    /\ NewWatchlist
    /\ NewScanner
    /\ calc = NoCalc
    /\ NewTradeLogger

Init == NewBaseTradingEngine(TwoPositions) /\ NewCollaborators

Spec == Init /\ [][Next]_vars

\* the validation of SubmitOrder, on every combination of arguments
NextValidation ==
    \/ \E a \in ValidationArgs : SubmitOrder(1, a)
    \/ SubmitLocked(1, Ticking, MaxValidationOrders)
    \/ Enable
    \/ Disable
    \/ \E l \in LimitValues : SetLimits(l)

InitValidation == NewBaseTradingEngine(OnePosition) /\ NewCollaborators

SpecValidation == InitValidation /\ [][NextValidation]_vars

\* the callers of SubmitOrder, ClosePosition and CancelOrder running
\* concurrently, on a coarse clock, with TradingLimits left as configured
NextConcurrent ==
    \/ \E t \in Threads, a \in ConcurrentArgs : SubmitOrder(t, a)
    \/ \E t \in Threads : SubmitLocked(t, Coarse, MaxConcurrentOrders)
    \/ \E t \in Threads, id \in CancelIDs : CancelOrder(t, id)
    \/ \E t \in Threads : CancelLocked(t)
    \/ \E t \in Threads, s \in Symbols, q \in CloseQuantities :
          ClosePosition(t, s, q)
    \/ \E t \in Threads : CloseLocked(t)
    \/ \E t \in Threads : CloseSubmit(t)
    \/ Enable
    \/ Disable

InitConcurrent == NewBaseTradingEngine(OnePosition) /\ NewCollaborators

SpecConcurrent == InitConcurrent /\ [][NextConcurrent]_vars

\* GetAccount called by two goroutines beside SubmitOrder
NextAccount ==
    \/ \E t \in Threads : GetAccount(t)
    \/ \E t \in Threads : AccountSum(t)
    \/ \E t \in Threads : AccountDefaults(t)
    \/ \E t \in Threads, a \in ConcurrentArgs : SubmitOrder(t, a)
    \/ \E t \in Threads : SubmitLocked(t, Ticking, MaxConcurrentOrders)
    \/ Enable
    \/ Disable

InitAccount == NewBaseTradingEngine(TwoPositions) /\ NewCollaborators

SpecAccount == InitAccount /\ [][NextAccount]_vars

\* arguments of the callers of SubmitOrder taken statement by statement
SerialArgs ==
    ConcurrentArgs \cup {Args("AAPL", 50, 601, OrderTypeLimit, OrderSideBuy)}

\* SubmitOrder called by two goroutines, its critical section taken
\* statement by statement
NextSerial ==
    \/ \E t \in Threads, a \in SerialArgs : SubmitOrder(t, a)
    \/ \E t \in Threads : SubmitLock(t)
    \/ \E t \in Threads : SubmitCreate(t, Coarse, MaxConcurrentOrders)
    \/ \E t \in Threads : SubmitQuote(t)
    \/ \E t \in Threads : SubmitFill(t)
    \/ Enable
    \/ Disable

InitSerial == NewBaseTradingEngine(OnePosition) /\ NewCollaborators

SpecSerial == InitSerial /\ [][NextSerial]_vars

\* the calls of the data source manager, with GetStockData running beside
\* the calls that register and remove sources
NextManager ==
    \/ \E n \in SourceNames, en \in BOOLEAN : AddDataSource(n, DataSource(en))
    \/ \E n \in SourceNames, closeErr \in {Nil, ErrSource} :
          RemoveDataSource(n, closeErr)
    \/ \E n \in SourceNames : SetPrimaryDataSource(n)
    \/ GetStockDataStart
    \/ GetStockDataPrimary
    \/ GetStockDataOthers

InitManager == NewBaseTradingEngine(OnePosition) /\ NewCollaborators

SpecManager == InitManager /\ [][NextManager]_vars

\* HealthCheckAll with its goroutines, beside the calls that register and
\* remove sources
NextHealth ==
    \/ \E n \in HealthSources, en \in BOOLEAN : AddDataSource(n, DataSource(en))
    \/ \E n \in HealthSources : RemoveDataSource(n, Nil)
    \/ HealthCheckAllStart
    \/ \E n \in DOMAIN hca.g : HealthCheck(n)
    \/ \E n \in DOMAIN hca.g : StoreBegin(n)
    \/ \E n \in DOMAIN hca.g : StoreEnd(n)
    \/ HealthCheckAllReturn

InitHealth == NewBaseTradingEngine(OnePosition) /\ NewCollaborators

SpecHealth == InitHealth /\ [][NextHealth]_vars

\* GetStockData of a Polygon source, called again and again with the
\* caller cancelling or not
NextPolygon ==
    \/ \E cancelled \in BOOLEAN, requestOK \in BOOLEAN :
          PolygonGetStockData(cancelled, requestOK)
    \/ PolygonCancel
    \/ PolygonAttempt
    \/ PolygonTimer
    \/ PolygonCancelled
    \/ PolygonDecode

InitPolygon ==
    /\ NewBaseTradingEngine(OnePosition)
    /\ NewManager
    /\ \E config \in PolygonConfigs : NewPolygonDataSource(config)
    /\ NewWatchlist
    /\ NewScanner
    /\ calc = NoCalc
    /\ NewTradeLogger

\* every Do comes back (the client has a timeout), the timer of a wait
\* fires, and a goroutine that can run does
SpecPolygon ==
    /\ InitPolygon
    /\ [][NextPolygon]_vars
    /\ WF_vars(PolygonAttempt)
    /\ WF_vars(PolygonTimer)
    /\ WF_vars(PolygonCancelled)
    /\ WF_vars(PolygonDecode)

\* the watchlist: items added and removed and time passing while
\* ScanWatchlist runs
NextWatchlist ==
    \/ \E item \in WatchItems : AddItem(item, MaxItems)
    \/ \E id \in DOMAIN items \cup {GivenID("w3")} : RemoveItem(id)
    \/ Tick(MaxTime)
    \/ ScanWatchlist
    \/ ScanCheck
    \/ ScanStore

InitWatchlist == NewBaseTradingEngine(OnePosition) /\ NewCollaborators

SpecWatchlist == InitWatchlist /\ [][NextWatchlist]_vars

\* the monitor: StartWatchlistMonitor scanning and executing while items are
\* added and the engine is enabled and disabled; a buy-list item on AAPL and
\* a sell-list item on MSFT
MonitorItems ==
    { WatchlistItem("w1", "AAPL", 10000, 0, 0, 50, NoTime, TRUE),
      WatchlistItem("w2", "MSFT", 0, 9999, 10001, 50, NoTime, FALSE) }

NextMonitor ==
    \/ \E item \in MonitorItems : AddItem(item, MaxItems)
    \/ Enable
    \/ Disable
    \/ StartWatchlistMonitor
    \/ TickerFires(MaxCycles)
    \/ CancelMonitor
    \/ MonitorReturn
    \/ MonitorScan
    \/ ScanCheck
    \/ ScanStore
    \/ MonitorExecute
    \/ ExecuteSubmit(Ticking, MaxCycles * MaxItems)
    \/ ExecuteStore
    \/ ExecuteReturn

InitMonitor == NewBaseTradingEngine(OnePosition) /\ NewCollaborators

SpecMonitor == InitMonitor /\ [][NextMonitor]_vars

\* the monitor with one item at a time on its watchlist
NextCycle ==
    \/ \E item \in MonitorItems : AddItem(item, 1)
    \/ Enable
    \/ Disable
    \/ StartWatchlistMonitor
    \/ TickerFires(MaxCycles)
    \/ CancelMonitor
    \/ MonitorReturn
    \/ MonitorScan
    \/ ScanCheck
    \/ ScanStore
    \/ MonitorExecute
    \/ ExecuteSubmit(Ticking, MaxCycles)
    \/ ExecuteStore
    \/ ExecuteReturn

\* ExecuteWatchlistItems is about to call SubmitOrder
AtSubmitOrder == mon.pc = "execute" /\ mon.triggeredItems # <<>>

\* the goroutine of the monitor keeps running: the scan and the execution
\* take their steps, every SubmitOrder call returns (the engine takes its
\* step, which nothing but the bound on the orders disables), and a select
\* whose ctx.Done() case is ready again and again takes it in the end (the
\* choice among ready cases is random)
SpecCycle ==
    /\ InitMonitor
    /\ [][NextCycle]_vars
    /\ WF_vars(ScanCheck)
    /\ WF_vars(ScanStore)
    /\ WF_vars(MonitorExecute)
    /\ []<>(~AtSubmitOrder)
    /\ WF_vars(ExecuteStore)
    /\ WF_vars(ExecuteReturn)
    /\ SF_vars(MonitorReturn)

\* ScanMultipleSymbols on a list of symbols
BatchSteps ==
    \/ SpawnWorker(WorkerSlots)
    \/ LoopEnd
    \/ \E k \in DOMAIN sms.g : ScanSymbolReturn(k)
    \/ \E k \in DOMAIN sms.g : ResultLock(k)
    \/ \E k \in DOMAIN sms.g : ResultStore(k)
    \/ BatchReturn

\* the symbols of a call
SymbolList(n) == [k \in 1..n |-> k]

\* the outcomes of the scans of a call with n symbols: every scan without
\* result; or the first scan failing and the last with results; or the first
\* two with results and the last two failing
PoolOutcomes(n) ==
    { [k \in 1..n |-> ScanNothing],
      [k \in 1..n |-> IF k = 1 THEN ScanError
                      ELSE IF k = n THEN ScanSignals ELSE ScanNothing],
      [k \in 1..n |-> IF k <= 2 THEN ScanSignals
                      ELSE IF k >= n - 1 THEN ScanError ELSE ScanNothing] }

\* one call: without symbols, with one, with as many as the pool has slots,
\* or with more
NextPool ==
    \/ /\ sms.pc = "idle"
       /\ \E n \in {0, 1, WorkerSlots, MaxSymbols} :
             \E outcome \in PoolOutcomes(n) :
                ScanMultipleSymbols(SymbolList(n), outcome)
    \/ BatchSteps

InitPool == NewBaseTradingEngine(OnePosition) /\ NewCollaborators

SpecPool == InitPool /\ [][NextPool]_vars

\* calls with up to MaxBatch symbols, each scan of any outcome
NextBatch ==
    \/ \E n \in 0..MaxBatch :
          \E outcome \in [1..n -> {ScanError, ScanNothing, ScanSignals}] :
             ScanMultipleSymbols(SymbolList(n), outcome)
    \/ BatchSteps

InitBatch == NewBaseTradingEngine(OnePosition) /\ NewCollaborators

SpecBatch == InitBatch /\ [][NextBatch]_vars

\* the closed trades GetTradeStats is called on: losing, flat and winning
\* ones, held for one hour
StatsTrades ==
    {[Symbol |-> "AAPL", RealizedPnL |-> F(p), OpenedAt |-> o,
      ClosedAt |-> o + 1, HoldTime |-> F(1)] :
        p \in {-2, 0, 1, 3}, o \in 1..MaxOpenedAt}

StatsTradeLists == UNION {[1..n -> StatsTrades] : n \in 0..MaxTrades}

\* GetTradeStats over every window
NextStats ==
    \E startTime \in 0..MaxOpenedAt, endTime \in 1..(MaxOpenedAt + 2) :
        GetTradeStats(startTime, endTime)

\* an engine that has recorded up to MaxTrades trades
InitStats ==
    /\ enabled = FALSE
    /\ limits = OnePosition
    /\ orders = <<>>
    /\ positions = <<>>
    /\ account = [ID |-> "", RealizedPnL |-> F(0), UnrealizedPnL |-> F(0),
                  TotalPnL |-> F(0), Cash |-> F(0), BuyingPower |-> F(0),
                  Equity |-> F(0), MaxDailyTrades |-> 0]
    /\ trades \in StatsTradeLists
    /\ clock = 0
    /\ nextSeq = 1
    /\ lastFill = [s \in Symbols \cup {""} |-> [side |-> "none"]]
    /\ pc = [t \in Threads |-> "idle"]
    /\ call = [t \in Threads |-> NoCall]
    /\ last = NoLast
    /\ mu = 0
    /\ rlock = {}
    /\ local = [t \in Threads |-> NoLocal]
    /\ serial = EngineState
    /\ NewCollaborators

SpecStats == InitStats /\ [][NextStats]_vars

\* closing prices of up to MaxBars bars
ClosingPrices ==
    UNION {[1..n -> {F(1), F(2), F(4)}] : n \in 0..MaxBars}

\* one call of Calculate, for MACDs of short periods
NextMACD ==
    /\ calc.op = "none"
    /\ \E prices \in ClosingPrices :
          \E p \in {<<1, 2, 1>>, <<1, 2, 2>>, <<1, 2, 3>>, <<2, 3, 2>>} :
              MACDCalculate(prices, p[1], p[2], p[3])

InitMACD == NewBaseTradingEngine(OnePosition) /\ NewCollaborators

SpecMACD == InitMACD /\ [][NextMACD]_vars

\* the entries handed to the trade logger: symbols with a line feed, a
\* quote and a backslash among them, an entry without a timestamp and one
\* that json.Marshal refuses
LogSymbols == {<<>>, <<"A">>, <<"A", "\n">>, <<"\"", "\\">>, <<"\\", "n">>}

LogEntries ==
    {[Type |-> <<"summary">>, Timestamp |-> 1, Symbol |-> x, Finite |-> TRUE] :
        x \in LogSymbols}
    \cup {[Type |-> <<"summary">>, Timestamp |-> d, Symbol |-> <<"A">>,
           Finite |-> TRUE] : d \in ZeroDay..MaxDay}
    \cup {[Type |-> <<"summary">>, Timestamp |-> 1, Symbol |-> <<"A">>,
           Finite |-> FALSE]}

\* the trade logger called from one goroutine
NextLogger ==
    \/ /\ Len(tl.calls) < MaxLogs
       /\ \E entry \in LogEntries :
             \/ LogBuy(entry)
             \/ LogSell(entry)
             \/ LogPosition(entry)
    \/ \E date \in 1..(MaxDay + 1) : GetDailyLogs(date)
    \/ Midnight(MaxDay)

InitLogger == NewBaseTradingEngine(OnePosition) /\ NewCollaborators

SpecLogger == InitLogger /\ [][NextLogger]_vars

\* ClosePosition called by two goroutines beside a buy and a sell of
\* SubmitOrder on the same symbol
CloseRaceArgs ==
    { Args("AAPL", 50, 0, OrderTypeMarket, sd) :
        sd \in {OrderSideBuy, OrderSideSell} }

NextClose ==
    \/ \E t \in Threads, a \in CloseRaceArgs : SubmitOrder(t, a)
    \/ \E t \in Threads : SubmitLocked(t, Ticking, MaxOrders)
    \/ \E t \in Threads, q \in CloseQuantities : ClosePosition(t, "AAPL", q)
    \/ \E t \in Threads : CloseLocked(t)
    \/ \E t \in Threads : CloseSubmit(t)
    \/ Enable

InitClose == NewBaseTradingEngine(OnePosition) /\ NewCollaborators

SpecClose == InitClose /\ [][NextClose]_vars

\* the monitor and a goroutine that calls ScanWatchlist and
\* ExecuteWatchlistItems itself, on a watchlist that gets each item once
NextDirect ==
    \/ \E item \in MonitorItems :
          /\ GivenID(item.ID) \notin DOMAIN items
          /\ AddItem(item, MaxItems)
    \/ Enable
    \/ StartWatchlistMonitor
    \/ TickerFires(MaxDirectCalls)
    \/ MonitorScan
    \/ ScanCheck
    \/ ScanStore
    \/ MonitorExecute
    \/ ExecuteSubmit(Ticking, MaxOrders)
    \/ ExecuteStore
    \/ ExecuteReturn
    \/ DirectScanWatchlist(MaxDirectCalls)
    \/ DirectScanCheck
    \/ DirectScanStore
    \/ DirectExecute
    \/ DirectSubmit(Ticking, MaxOrders)
    \/ DirectExecuteStore
    \/ DirectExecuteReturn

InitDirect == NewBaseTradingEngine(OnePosition) /\ NewCollaborators

SpecDirect == InitDirect /\ [][NextDirect]_vars

\* a strategy "zero" whose weights are all zero, a strategy "mixed" with a
\* weight that is not, and a strategy "off" that is disabled
StrategyInputs ==
    {Strategy("zero", TRUE, [i \in 1..n |-> F(0)]) : n \in 0..MaxIndicators}
       \cup {Strategy("mixed", TRUE, <<F(1), F(0)>>),
             Strategy("off", FALSE, <<F(0)>>)}

\* the scanner: strategies are added, and calls of ScanMultipleSymbols scan
\* up to MaxScans symbols by a strategy, stored or not
NextScanner ==
    \/ \E strategy \in StrategyInputs : AddStrategy(strategy)
    \/ \E name \in {"zero", "mixed", "off"}, n \in 0..MaxScans :
          \E outcome \in [1..n -> {ScanError, ScanNothing, ScanSignals}] :
             ScanMultipleSymbolsWith(name, SymbolList(n), outcome)
    \/ SpawnWorker(WorkerSlots)
    \/ LoopEnd
    \/ \E k \in DOMAIN sms.g : ScanSymbolGet(k)
    \/ \E k \in DOMAIN sms.g : ScanSymbolSum(k)
    \/ \E k \in DOMAIN sms.g : ScanSymbolWrite(k)
    \/ \E k \in DOMAIN sms.g : ScanSymbolEvaluate(k)
    \/ \E k \in DOMAIN sms.g : ResultLock(k)
    \/ \E k \in DOMAIN sms.g : ResultStore(k)
    \/ BatchReturn

InitScanner == NewBaseTradingEngine(OnePosition) /\ NewCollaborators

SpecScanner == InitScanner /\ [][NextScanner]_vars

-----------------------------------------------------------------------------
(* Steps the properties speak about *)

\* the critical section of SubmitOrder runs for goroutine t and returns
SubmitReturns(t) == pc[t] = "submit" /\ pc'[t] = "idle"

\* a market order on symbol s is filled in this step
Fill(s) ==
    \E t \in Threads :
        /\ SubmitReturns(t)
        /\ last'.err = Nil
        /\ last'.order.Status = OrderStatusFilled
        /\ last'.order.Symbol = s

PositionCount == Cardinality(DOMAIN positions)

-----------------------------------------------------------------------------
(* C1 *)

\* the preconditions of SubmitOrder in the order the contract lists them,
\* each with the error it reports
ClaimedChecks(a, count, max) ==
    << <<a.symbol = "", ErrInvalidSymbol>>,
       <<a.quantity <= 0, ErrInvalidQuantity>>,
       <<a.price < 0 /\ a.type # OrderTypeMarket, ErrInvalidPrice>>,
       <<a.type \notin {"market", "limit", "stop"}, ErrInvalidOrderType>>,
       <<a.side \notin {"buy", "sell"}, ErrInvalidOrderSide>>,
       <<a.side = "buy" /\ count >= max, ErrTradeLimitExceeded>> >>

FirstFailing(checks) ==
    LET failing == {i \in DOMAIN checks : checks[i][1]}
    IN  IF failing = {} THEN Nil
        ELSE checks[CHOOSE i \in failing : \A j \in failing : i <= j][2]

\* C1: SubmitOrder reports the first failing precondition in the order
\* disabled engine, empty symbol, quantity <= 0, negative price on a
\* non-market order, unknown type, unknown side, buy at the position limit:
\* a call that finds the engine disabled returns ErrTradeDisabled, a call
\* that goes on returns the error of the earliest precondition its arguments
\* violate, and nil when they violate none.
C1_ValidationOrder ==
    [][ \A t \in Threads :
          /\ (pc[t] = "idle" /\ pc'[t] = "idle" /\ last' # last /\ last'.t = t)
                => (~enabled /\ last'.err = ErrTradeDisabled)
          /\ (pc[t] = "idle" /\ pc'[t] = "submit") => enabled
          /\ SubmitReturns(t)
                => last'.err = FirstFailing(ClaimedChecks(call[t], PositionCount,
                                                          limits.MaxPositions))
      ]_vars

\* a call with a bad quantity, a negative price, an unknown type and an
\* unknown side has returned ErrInvalidQuantity
C1_Witness ==
    /\ last.call.op = "SubmitOrder"
    /\ last.err = ErrInvalidQuantity
    /\ last.call.symbol # ""
    /\ last.call.price < 0
    /\ last.call.type = "bogus"
    /\ last.call.side = "hold"

-----------------------------------------------------------------------------
(* C2 *)

\* C2: when a market sell of N shares is filled on a symbol whose previous
\* fill was a market buy of the same N shares that opened the position, the
\* symbol leaves the position set, exactly one Trade is appended, its
\* RealizedPnL is N * (sellFill - buyFill), and the account's RealizedPnL
\* grows by that amount.
C2_RoundTrip ==
    [][ \A s \in Symbols :
          ( /\ Fill(s)
            /\ last'.order.Side = OrderSideSell
            /\ lastFill[s].side = OrderSideBuy
            /\ ~lastFill[s].hadPos
            /\ lastFill[s].qty = last'.order.FilledQty )
          => LET N   == last'.order.FilledQty
                 pnl == FMul(F(N), FSub(last'.order.AvgFillPrice,
                                        F(lastFill[s].price)))
             IN  /\ s \notin DOMAIN positions'
                 /\ Len(trades') = Len(trades) + 1
                 /\ SubSeq(trades', 1, Len(trades)) = trades
                 /\ trades'[Len(trades')].RealizedPnL = pnl
                 /\ account'.RealizedPnL = FAdd(account.RealizedPnL, pnl)
      ]_vars

\* 100 AAPL bought at 150.25 and sold at 160.00, and nothing else: one Trade
\* with a profit of 100 * 9.75 (3900 quarter dollars)
C2_Witness ==
    /\ nextSeq = 3
    /\ positions = <<>>
    /\ Len(trades) = 1
    /\ trades[1].Quantity = 100
    /\ trades[1].RealizedPnL = F(3900)
    /\ account.RealizedPnL = F(3900)
    /\ lastFill["AAPL"].side = OrderSideSell

-----------------------------------------------------------------------------
(* C3 *)

\* C3: when SubmitOrder returns from a market order whose quote lookup
\* succeeded, the stored order is filled, with FilledQty the requested
\* quantity and AvgFillPrice the quote's last price, and the position,
\* account and trades already show the fill.
C3_MarketFill ==
    [][ \A t \in Threads :
          (SubmitReturns(t) /\ last'.quote.err = Nil)
          => LET a == call[t]
                 o == last'.order
                 s == a.symbol
                 p == F(last'.quote.LastPrice)
             IN  /\ last'.err = Nil
                 /\ o.ID \in DOMAIN orders'
                 /\ orders'[o.ID] = o
                 /\ o.Symbol = s /\ o.Side = a.side /\ o.Quantity = a.quantity
                 /\ o.Status = OrderStatusFilled
                 /\ o.FilledQty = a.quantity
                 /\ o.AvgFillPrice = p
                 /\ IF a.side = OrderSideBuy
                    THEN /\ s \in DOMAIN positions'
                         /\ positions'[s].Quantity =
                              a.quantity + (IF s \in DOMAIN positions
                                            THEN positions[s].Quantity ELSE 0)
                         /\ positions'[s].CurrentPrice = p
                    ELSE s \in DOMAIN positions
                         => LET Q == positions[s].Quantity
                            IN  /\ account'.RealizedPnL # account.RealizedPnL
                                     \/ p = positions[s].EntryPrice
                                /\ IF Q > a.quantity
                                   THEN /\ s \in DOMAIN positions'
                                        /\ positions'[s].Quantity = Q - a.quantity
                                   ELSE /\ s \notin DOMAIN positions'
                                        /\ Len(trades') = Len(trades) + 1
      ]_vars

\* a market buy of 100 has returned filled at the quoted 160.00 and the
\* position holds the 100 shares
C3_Witness ==
    /\ last.quote.err = Nil
    /\ last.quote.LastPrice = 640
    /\ last.order.Status = OrderStatusFilled
    /\ last.order.Side = OrderSideBuy
    /\ last.order.FilledQty = 100
    /\ orders[last.order.ID] = last.order
    /\ positions[last.order.Symbol].Quantity = 100

-----------------------------------------------------------------------------
(* C4 *)

-----------------------------------------------------------------------------
(* C5 *)

\* C5: a filled buy of q shares at p into a position of quantity Q and cost
\* C leaves Quantity Q + q, Cost C + q * p and EntryPrice (C + q * p) / (Q + q);
\* a filled buy with no position opens one whose EntryPrice is p.
C5_WeightedAverage ==
    [][ \A s \in Symbols :
          (Fill(s) /\ last'.order.Side = OrderSideBuy)
          => LET q == last'.order.FilledQty
                 p == last'.order.AvgFillPrice
             IN  /\ s \in DOMAIN positions'
                 /\ IF s \in DOMAIN positions
                    THEN LET Q == positions[s].Quantity
                             C == positions[s].Cost
                             newCost == FAdd(C, FMul(F(q), p))
                         IN  /\ positions'[s].Quantity = Q + q
                             /\ positions'[s].Cost = newCost
                             /\ positions'[s].EntryPrice = FDiv(newCost, F(Q + q))
                    ELSE /\ positions'[s].Quantity = q
                         /\ positions'[s].EntryPrice = p
      ]_vars

\* 100 at 150.25 then 50 at 160.00: 150 shares at 153.50
C5_Witness ==
    /\ "AAPL" \in DOMAIN positions
    /\ lastFill["AAPL"] = [side |-> OrderSideBuy, qty |-> 50, price |-> 640,
                           hadPos |-> TRUE]
    /\ positions["AAPL"].Quantity = 150
    /\ positions["AAPL"].Cost = F(100 * 601 + 50 * 640)
    /\ positions["AAPL"].EntryPrice = F(614)

-----------------------------------------------------------------------------
(* C6 *)

\* C6: a filled sell of q at p against a position of quantity Q and entry
\* price e adds q * (p - e) to the account's RealizedPnL; if Q - q <= 0 it
\* appends one Trade and deletes the position, and otherwise it appends no
\* Trade and keeps the position with quantity Q - q and entry price e.
C6_Sell ==
    [][ \A s \in Symbols :
          (Fill(s) /\ last'.order.Side = OrderSideSell /\ s \in DOMAIN positions)
          => LET q == last'.order.FilledQty
                 p == last'.order.AvgFillPrice
                 Q == positions[s].Quantity
                 e == positions[s].EntryPrice
             IN  /\ account'.RealizedPnL =
                        FAdd(account.RealizedPnL, FMul(F(q), FSub(p, e)))
                 /\ IF Q - q <= 0
                    THEN /\ Len(trades') = Len(trades) + 1
                         /\ SubSeq(trades', 1, Len(trades)) = trades
                         /\ s \notin DOMAIN positions'
                    ELSE /\ trades' = trades
                         /\ s \in DOMAIN positions'
                         /\ positions'[s].Quantity = Q - q
                         /\ positions'[s].EntryPrice = e
      ]_vars

\* 50 of 100 shares bought at 150.25 have been sold at 160.00: no Trade, the
\* position keeps 50 shares at 150.25, 50 * 9.75 realized
C6_Witness ==
    /\ "AAPL" \in DOMAIN positions
    /\ lastFill["AAPL"] = [side |-> OrderSideSell, qty |-> 50, price |-> 640,
                           hadPos |-> TRUE]
    /\ positions["AAPL"].Quantity = 50
    /\ positions["AAPL"].EntryPrice = F(601)
    /\ trades = <<>>
    /\ account.RealizedPnL = F(1950)

-----------------------------------------------------------------------------
(* C7 *)

-----------------------------------------------------------------------------
(* C8 *)

\* C8: every position in the map has Quantity > 0; a symbol enters the map
\* only in a step that fills a buy of it, and leaves it exactly in the step
\* that fills a sell bringing its quantity to zero or below.
C8_PositionLifecycle ==
    /\ [](\A s \in DOMAIN positions : positions[s].Quantity > 0)
    /\ [][ \A s \in DOMAIN positions \cup DOMAIN positions' :
             /\ (s \notin DOMAIN positions)
                   => (Fill(s) /\ last'.order.Side = OrderSideBuy)
             /\ (s \in DOMAIN positions /\ s \notin DOMAIN positions')
                   => /\ Fill(s)
                      /\ last'.order.Side = OrderSideSell
                      /\ positions[s].Quantity - last'.order.FilledQty <= 0
             /\ ( /\ s \in DOMAIN positions
                  /\ Fill(s)
                  /\ last'.order.Side = OrderSideSell
                  /\ positions[s].Quantity - last'.order.FilledQty <= 0 )
                   => s \notin DOMAIN positions'
         ]_vars

\* the AAPL position has been closed and a MSFT position opened after it
C8_Witness ==
    /\ Len(trades) = 1
    /\ trades[1].Symbol = "AAPL"
    /\ DOMAIN positions = {"MSFT"}
    /\ positions["MSFT"].Quantity = 50

-----------------------------------------------------------------------------
(* C9 *)

\* arguments that pass every check before the position limit
WellFormed(a) ==
    /\ a.symbol # ""
    /\ a.quantity > 0
    /\ a.price >= 0 \/ a.type = OrderTypeMarket
    /\ a.type \in {OrderTypeMarket, OrderTypeLimit, OrderTypeStop}
    /\ a.side \in {OrderSideBuy, OrderSideSell}

\* C9: with TradingLimits unchanged, in every interleaving of SubmitOrder,
\* ClosePosition and CancelOrder calls the number of open positions never
\* exceeds MaxPositions; a (well-formed) buy whose critical section finds
\* the count at MaxPositions or above returns ErrTradeLimitExceeded and
\* stores no order; a sell is never rejected with that error.
C9_MaxPositions ==
    /\ [](PositionCount <= limits.MaxPositions)
    /\ [][ \A t \in Threads :
             SubmitReturns(t)
             => /\ ( /\ call[t].side = OrderSideBuy
                     /\ WellFormed(call[t])
                     /\ PositionCount >= limits.MaxPositions )
                      => /\ last'.err = ErrTradeLimitExceeded
                         /\ last'.order = NoOrder
                         /\ orders' = orders
                         /\ positions' = positions
                /\ call[t].side = OrderSideSell
                      => last'.err # ErrTradeLimitExceeded
         ]_vars

\* a buy has been rejected at the limit while the other goroutine is inside
\* a call, and a sell has been stored with the limit reached
C9_Witness ==
    /\ last.err = ErrTradeLimitExceeded
    /\ last.call.side = OrderSideBuy
    /\ PositionCount = limits.MaxPositions
    /\ \E t \in Threads : pc[t] # "idle"
    /\ \E id \in DOMAIN orders : orders[id].Side = OrderSideSell

-----------------------------------------------------------------------------
(* C10 *)

\* orders made so far (one behaviour is within one day)
OrdersToday == nextSeq - 1

\* C10: once the orders made in the day have reached MaxDailyTrades,
\* SubmitOrder returns ErrTradeLimitExceeded and stores no order.
C10_MaxDailyTrades ==
    [][ \A t \in Threads :
          (SubmitReturns(t) /\ OrdersToday >= limits.MaxDailyTrades)
          => /\ last'.err = ErrTradeLimitExceeded
             /\ orders' = orders
      ]_vars

-----------------------------------------------------------------------------
(* C11 *)

\* the critical section of CancelOrder runs for goroutine t and returns
CancelReturns(t) == pc[t] = "cancel" /\ pc'[t] = "idle"

\* a CancelOrder call of goroutine t returns at its IsEnabled() check
CancelRefused(t) ==
    /\ pc[t] = "idle" /\ pc'[t] = "idle"
    /\ last' # last
    /\ last'.t = t
    /\ last'.call.op = "CancelOrder"

\* what the contract says of a CancelOrder(id) that returns in this step,
\* id being a stored order
CancelContract(id) ==
    IF orders[id].Status \in {OrderStatusFilled, OrderStatusCanceled,
                              OrderStatusRejected}
    THEN /\ last'.err # Nil
         /\ orders' = orders
         /\ UNCHANGED <<enabled, limits, positions, account, trades>>
    ELSE /\ last'.err = Nil
         /\ orders' = [orders EXCEPT ![id].Status = OrderStatusCanceled]
         /\ UNCHANGED <<enabled, limits, positions, account, trades>>

\* C11 as stated, of every CancelOrder call: on an order that is filled,
\* canceled or rejected it returns an error and changes nothing; on an order
\* in any other status it sets the status to canceled and returns nil.
C11_CancelOrder_Always ==
    [][ \A t \in Threads :
          /\ (CancelReturns(t) /\ call[t].orderID \in DOMAIN orders)
                => CancelContract(call[t].orderID)
          /\ (CancelRefused(t) /\ last'.call.orderID \in DOMAIN orders)
                => CancelContract(last'.call.orderID)
      ]_vars

\* C11: a CancelOrder call that finds the engine enabled returns an error
\* and changes nothing when the order is filled, canceled or rejected (so a
\* second cancel of an order gets an error and leaves it canceled), and sets
\* the status to canceled and returns nil when the order is in any other
\* status; a call that finds the engine disabled returns ErrTradeDisabled
\* and changes nothing, whatever the status of the order.
C11_CancelOrder ==
    [][ \A t \in Threads :
          /\ (CancelReturns(t) /\ call[t].orderID \in DOMAIN orders)
                => CancelContract(call[t].orderID)
          /\ CancelRefused(t)
                => /\ ~enabled
                   /\ last'.err = ErrTradeDisabled
                   /\ UNCHANGED <<enabled, limits, orders, positions, account,
                                  trades>>
      ]_vars

\* the second CancelOrder of an order has returned the state error and the
\* order is still canceled
C11_Witness ==
    /\ last.call.op = "CancelOrder"
    /\ last.err = ErrCannotCancel
    /\ last.call.orderID \in DOMAIN orders
    /\ orders[last.call.orderID].Status = OrderStatusCanceled

-----------------------------------------------------------------------------
(* C12 *)

\* C12: every Trade has as EntryOrder a buy order of its symbol and as
\* ExitOrder a filled sell order of its symbol, and the two are not the same
\* order.
C12_TradeOrders ==
    \A i \in 1..Len(trades) :
        /\ trades[i].EntryOrder.Side = OrderSideBuy
        /\ trades[i].EntryOrder.Symbol = trades[i].Symbol
        /\ trades[i].ExitOrder.Side = OrderSideSell
        /\ trades[i].ExitOrder.Status = OrderStatusFilled
        /\ trades[i].ExitOrder.Symbol = trades[i].Symbol
        /\ trades[i].EntryOrder.seq # trades[i].ExitOrder.seq

-----------------------------------------------------------------------------
(* C13 *)

\* goroutine t takes a step that writes orders, positions, account or
\* trades: the critical section of SubmitOrder, or one of the two
\* assignments of GetAccount
WritesEngineState(t) ==
    /\ pc[t] \in {"submit", "account_sum", "account_defaults"}
    /\ pc'[t] # pc[t]

\* C13: every write to orders, positions, account and trades is made with
\* the engine's lock held exclusively: in a step that writes them no
\* goroutine holds the read lock and no other goroutine holds the write
\* lock, GetAccount included.
C13_ExclusiveWrites ==
    [][ \A t \in Threads :
          WritesEngineState(t) => (rlock = {} /\ mu \in {0, t})
      ]_vars

-----------------------------------------------------------------------------
(* C14 *)

\* the goroutines inside the critical section of SubmitOrder
InSubmit ==
    {t \in Threads : pc[t] \in {"submit_locked", "submit_quote", "submit_fill"}}

\* C14: whenever the lock is free, orders, positions, account and trades
\* are what the completed SubmitOrder calls give when applied one at a time
\* in the order they held the lock; at most one goroutine is inside the
\* critical section; and while a goroutine is inside it, between its checks,
\* its quote lookup and its position update, no step of another goroutine
\* changes orders, positions, account or trades.
C14_Serialized ==
    /\ [](mu = 0 => EngineState = serial)
    /\ [](Cardinality(InSubmit) <= 1)
    /\ [][ \A t \in InSubmit :
             pc'[t] = pc[t] => EngineState' = EngineState
         ]_vars

\* a market order of goroutine 1 has its quote and is about to be filled
\* while goroutine 2 waits for the lock, after an earlier call has stored an
\* order
C14_Witness ==
    /\ pc[1] = "submit_fill"
    /\ pc[2] = "submit"
    /\ mu = 1
    /\ DOMAIN serial.orders # {}

-----------------------------------------------------------------------------
(* C15 *)

\* C15: primary names a registered source whenever a source is registered
\* and is empty otherwise; an AddDataSource into an empty manager makes the
\* source primary and any other leaves primary alone; a RemoveDataSource of
\* the primary makes one of the remaining sources primary; SetPrimaryDataSource
\* of a registered source makes it primary; and a call that returns an error
\* leaves the sources and primary unchanged.
C15_PrimaryInvariant ==
    /\ [](IF DOMAIN dataSources = {} THEN primary = ""
          ELSE primary \in DOMAIN dataSources)
    /\ [][ (mlast' # mlast \/ dataSources' # dataSources \/ primary' # primary)
           => LET r == mlast'
                  before == DOMAIN dataSources
                  after  == DOMAIN dataSources'
              IN  /\ r.err # Nil
                       => dataSources' = dataSources /\ primary' = primary
                  /\ (r.op = "AddDataSource" /\ r.err = Nil)
                       => /\ r.name \notin before
                          /\ after = before \cup {r.name}
                          /\ primary' = IF before = {} THEN r.name ELSE primary
                  /\ (r.op = "AddDataSource" /\ r.err # Nil)
                       => r.name \in before
                  /\ (r.op = "RemoveDataSource" /\ r.err = Nil)
                       => /\ r.name \in before
                          /\ after = before \ {r.name}
                          /\ primary' = IF primary # r.name THEN primary
                                         ELSE IF after = {} THEN ""
                                         ELSE primary'
                          /\ after # {} => primary' \in after
                  /\ (r.op = "SetPrimaryDataSource" /\ r.err = Nil)
                       => /\ r.name \in before
                          /\ dataSources' = dataSources
                          /\ primary' = r.name
         ]_vars

\* the primary of three sources has been removed and one of the two that
\* remain is primary
C15_Witness ==
    /\ mlast.op = "RemoveDataSource"
    /\ mlast.err = Nil
    /\ mlast.was = mlast.name
    /\ Cardinality(DOMAIN dataSources) = 2
    /\ primary \in DOMAIN dataSources

-----------------------------------------------------------------------------
(* C16 *)

\* the enabled sources among the copies a GetStockData call g took
EnabledSources(g) ==
    {n \in DOMAIN g.dataSources : g.dataSources[n].enabled}

\* the sources a GetStockData call g has called
TriedSources(g) == {g.tried[i].name : i \in DOMAIN g.tried}

\* C16: when GetStockData returns, the sources it called are enabled
\* sources, each called once, the primary before the others if it is
\* enabled; no source was called after one that succeeded; the call returns
\* a nil error with the data of the source that succeeded if one did, and
\* returns an error only after every enabled source has been called and
\* failed.
C16_Failover ==
    [][ (gsd.pc # "done" /\ gsd'.pc = "done")
        => LET g == gsd'
               n == Len(g.tried)
           IN  /\ Cardinality(TriedSources(g)) = n
               /\ TriedSources(g) \subseteq EnabledSources(g)
               /\ g.primary \in EnabledSources(g) => g.tried[1].name = g.primary
               /\ \A i \in 1..(n - 1) : ~g.tried[i].ok
               /\ IF n > 0 /\ g.tried[n].ok
                  THEN g.err = Nil /\ g.data = g.tried[n].name
                  ELSE /\ g.err # Nil
                       /\ TriedSources(g) = EnabledSources(g)
      ]_vars

\* the primary and one other source have failed and the third source has
\* supplied the data
C16_Witness ==
    /\ gsd.pc = "done"
    /\ gsd.err = Nil
    /\ Len(gsd.tried) = 3
    /\ gsd.tried[1].name = gsd.primary
    /\ ~gsd.tried[1].ok /\ ~gsd.tried[2].ok
    /\ gsd.data = gsd.tried[3].name

-----------------------------------------------------------------------------
(* C17 *)

\* C17: a GetStockData call in which every enabled source, of which there
\* is at least one, was called and failed has returned the error "all data
\* sources failed", citing the error of the source called last.
C17_AggregateError ==
    ( /\ gsd.pc = "done"
      /\ EnabledSources(gsd) # {}
      /\ TriedSources(gsd) = EnabledSources(gsd)
      /\ \A i \in DOMAIN gsd.tried : ~gsd.tried[i].ok )
    => /\ gsd.err = ErrAllFailed
       /\ gsd.lastErr = gsd.tried[Len(gsd.tried)].name

-----------------------------------------------------------------------------
(* C18 *)

\* C18: no two goroutines of HealthCheckAll store into the results map at
\* the same time and the program is not stopped; and when HealthCheckAll has
\* returned, the map has exactly one entry for each source of the call's
\* copy: the disabled error for a disabled source, whose HealthCheck was not
\* invoked, and the error of its HealthCheck for an enabled one.
C18_HealthCheckAll ==
    /\ Cardinality(Storing) <= 1
    /\ hca.pc # "crashed"
    /\ hca.pc = "done"
          => /\ DOMAIN hca.results = DOMAIN hca.dataSources
             /\ \A n \in DOMAIN hca.dataSources :
                   /\ hca.results[n] = hca.value[n]
                   /\ IF hca.dataSources[n].enabled
                      THEN n \in hca.invoked
                      ELSE /\ n \notin hca.invoked
                           /\ hca.results[n] = ErrSourceDisabled

-----------------------------------------------------------------------------
(* C19 *)

\* a GetStockData call is running on the Polygon source
PolygonRunning == poly.call.pc \notin {"idle", "done"}

\* C19: a GetStockData call makes at most RetryAttempts attempts and none
\* after a response of status 200; every wait that runs to its end lasts
\* RetryDelaySeconds, and there is one between two attempts and none after
\* the last; a call whose context is cancelled while it waits returns
\* CONTEXT_CANCELLED in its next step, with no further attempt; a call all of
\* whose RetryAttempts attempts failed returns a DataSourceError of source
\* "polygon" with a code and a message; and every call returns.
C19_Retry ==
    /\ [](LET c == poly.call
              n == Len(c.outcomes)
          IN  /\ n <= poly.config.RetryAttempts
              /\ \A i \in 1..(n - 1) : c.outcomes[i] # StatusOK
              /\ \A i \in DOMAIN c.delays :
                    c.delays[i] = poly.config.RetryDelaySeconds
              /\ Len(c.delays) = IF c.pc = "attempt" \/ n = 0 THEN n ELSE n - 1
              /\ ( /\ c.pc = "done"
                    /\ n = poly.config.RetryAttempts
                    /\ c.outcomes[n] # StatusOK )
                    => /\ c.err.Source = "polygon"
                       /\ c.err.Code \in {"CONNECTION_ERROR", "API_ERROR"}
                       /\ c.err.Message # "")
    /\ [][ (poly.call.pc = "wait" /\ poly.call.cancelled /\ poly' # poly)
           => /\ poly'.call.pc = "done"
              /\ poly'.call.err = DataSourceError("CONTEXT_CANCELLED")
              /\ poly'.call.outcomes = poly.call.outcomes
              /\ poly'.call.delays = poly.call.delays
         ]_vars
    /\ (PolygonRunning ~> poly.call.pc = "done")

\* three attempts have failed with two waits of five seconds between them,
\* and the call has returned an API_ERROR
C19_Witness ==
    /\ poly.call.pc = "done"
    /\ poly.config = DataSourceConfig(3, 5)
    /\ Len(poly.call.outcomes) = 3
    /\ poly.call.delays = <<5, 5>>
    /\ poly.call.err.Code = "API_ERROR"

-----------------------------------------------------------------------------
(* C20 *)

\* ScanWatchlist checks the active item item in this step
Checks(item) ==
    /\ scan.pc = "check"
    /\ item \in scan.activeItems
    /\ item \notin scan'.activeItems

\* the step appends item to triggeredItems and updatedItems, as triggered
\* and with TriggeredAt set
Triggers(item) ==
    LET it == [item EXCEPT !.Status = WatchStatusTriggered,
                           !.TriggeredAt = clock]
    IN  /\ it.TriggeredAt # NoTime
        /\ scan'.triggeredItems = Append(scan.triggeredItems, it)
        /\ scan'.updatedItems = Append(scan.updatedItems, it)

\* the step leaves triggeredItems and updatedItems as they are
TriggersNothing ==
    /\ scan'.triggeredItems = scan.triggeredItems
    /\ scan'.updatedItems = scan.updatedItems

\* C20 as stated, of every target price: an active buy-list item that is
\* not expired and whose quote was fetched is triggered if and only if the
\* last price is <= its target price.
C20_BuyTrigger_AnyTarget ==
    [][ \A item \in scan.activeItems :
          ( /\ Checks(item)
            /\ item.IsBuyList
            /\ ~Expired(item, clock)
            /\ scan'.quote.err = Nil )
          => IF scan'.quote.LastPrice <= item.TargetPrice
             THEN Triggers(item) ELSE TriggersNothing
      ]_vars

\* C20: an active buy-list item that is not expired, whose quote was fetched
\* and whose target price T is above zero is triggered (status triggered,
\* TriggeredAt set, put on the triggered list) if and only if the last price
\* is <= T; an item with a target price of zero or below is not triggered at
\* any price.  ScanWatchlist then stores every item it triggered into the
\* items and returns the triggered list.
C20_BuyTrigger ==
    [][ /\ \A item \in scan.activeItems :
              ( /\ Checks(item)
                /\ item.IsBuyList
                /\ ~Expired(item, clock)
                /\ scan'.quote.err = Nil )
              => IF item.TargetPrice > 0
                    /\ scan'.quote.LastPrice <= item.TargetPrice
                 THEN Triggers(item) ELSE TriggersNothing
        /\ (scan.pc = "store" /\ scan'.updatedItems # scan.updatedItems)
              => LET it == Head(scan.updatedItems)
                 IN  it.ID \in DOMAIN items' /\ items'[it.ID] = it
        /\ (scan.pc = "store" /\ scan'.pc = "done")
              => scan'.returned = scan.triggeredItems
      ]_vars

\* the scan of a buy-list item with a target of 100.00 has fetched a last
\* price of 100.00 and has returned the item, which is stored as triggered
C20_Witness ==
    /\ scan.pc = "done"
    /\ scan.quote = Quote(Nil, 10000)
    /\ Len(scan.returned) = 1
    /\ scan.returned[1].IsBuyList
    /\ scan.returned[1].TargetPrice = 10000
    /\ DOMAIN items = {scan.returned[1].ID}
    /\ items[scan.returned[1].ID].Status = WatchStatusTriggered
    /\ items[scan.returned[1].ID].TriggeredAt # NoTime

-----------------------------------------------------------------------------
(* C21 *)

\* ScanStore stores the first of the updated items in this step
Stores(it) ==
    /\ scan.pc = "store"
    /\ scan.updatedItems # <<>>
    /\ it = Head(scan.updatedItems)
    /\ scan'.updatedItems = Tail(scan.updatedItems)

-----------------------------------------------------------------------------
(* C22 *)

\* ScanWatchlist checks the active sell-list item item in this step, finds it
\* not expired and fetches its quote
ChecksSell(item) ==
    /\ Checks(item)
    /\ ~item.IsBuyList
    /\ ~Expired(item, clock)
    /\ scan'.quote.err = Nil

\* C22 as stated, of every stop-loss and take-profit: an active sell-list
\* item that is not expired and whose quote was fetched is triggered if and
\* only if the last price is <= its stop-loss or >= its take-profit.
C22_SellTrigger_AnyLevels ==
    [][ \A item \in scan.activeItems :
          ChecksSell(item)
          => IF \/ scan'.quote.LastPrice <= item.StopLoss
                \/ scan'.quote.LastPrice >= item.TakeProfit
             THEN Triggers(item) ELSE TriggersNothing
      ]_vars

\* C22: an active sell-list item that is not expired and whose quote was
\* fetched is triggered if and only if the last price is <= its stop-loss,
\* the stop-loss being above zero, or >= its take-profit, the take-profit
\* being above zero; a level of zero or below is not compared.  With both
\* levels above zero the item stays active at every price strictly between
\* them.
C22_SellTrigger ==
    [][ \A item \in scan.activeItems :
          ChecksSell(item)
          => /\ IF \/ item.StopLoss > 0
                      /\ scan'.quote.LastPrice <= item.StopLoss
                   \/ item.TakeProfit > 0
                      /\ scan'.quote.LastPrice >= item.TakeProfit
                THEN Triggers(item) ELSE TriggersNothing
             /\ ( /\ item.StopLoss > 0
                  /\ item.TakeProfit > 0
                  /\ item.StopLoss < scan'.quote.LastPrice
                  /\ scan'.quote.LastPrice < item.TakeProfit )
                => TriggersNothing
      ]_vars

\* the scan of a sell-list item with a stop-loss of 99.99 and a take-profit
\* of 100.01 has fetched a last price of 100.01 and has returned the item,
\* which is stored as triggered
C22_Witness ==
    /\ scan.pc = "done"
    /\ scan.quote = Quote(Nil, 10001)
    /\ Len(scan.returned) = 1
    /\ ~scan.returned[1].IsBuyList
    /\ scan.returned[1].StopLoss = 9999
    /\ scan.returned[1].TakeProfit = 10001
    /\ DOMAIN items = {scan.returned[1].ID}
    /\ items[scan.returned[1].ID].Status = WatchStatusTriggered

-----------------------------------------------------------------------------
(* C23 *)

\* the IDs of the items ScanWatchlist has still to check differ from one
\* another and from the IDs of the items it is going to store
DistinctIDs ==
    /\ \A a, b \in scan.activeItems : a.ID = b.ID => a = b
    /\ \A a \in scan.activeItems : \A i \in DOMAIN scan.updatedItems :
          scan.updatedItems[i].ID # a.ID

\* C23: when ScanWatchlist cannot obtain the quote of an active item that is
\* not expired (no primary source, or an error of GetRealTimeQuote), the
\* check puts the item on neither list and changes no stored item, and the
\* scan goes on with the items left; the scan stores only items it expired or
\* triggered, none of them under the ID of an item it has still to check or
\* has skipped, so the item stays stored as it was; no item is made invalid;
\* ScanWatchlist returns a nil error; and the next scan takes every stored
\* item of status active, the skipped one among them.
C23_QuoteFailure ==
    /\ [](DistinctIDs
          /\ \A id \in DOMAIN items : items[id].Status # WatchStatusInvalid
          /\ \A i \in DOMAIN scan.updatedItems :
                scan.updatedItems[i].Status
                   \in {WatchStatusExpired, WatchStatusTriggered})
    /\ [][ /\ \A item \in scan.activeItems :
                 ( /\ Checks(item)
                   /\ ~Expired(item, clock)
                   /\ scan'.quote.err \notin {Nil, NoQuote.err} )
                 => /\ TriggersNothing
                    /\ items' = items
                    /\ scan'.pc = "check"
                    /\ scan'.activeItems = scan.activeItems \ {item}
           /\ (scan.pc = "check" /\ scan'.pc = "store")
                 => scan.activeItems = {}
           /\ (scan.pc = "store" /\ scan'.pc = "done") => scan'.err = Nil
           /\ (scan.pc \in {"idle", "done"} /\ scan'.pc = "check")
                 => scan'.activeItems = GetActiveItems(items)
         ]_vars

\* a scan of two items has triggered one and could not fetch the quote of
\* the other, which is stored as active; it has returned the triggered one
C23_Witness ==
    /\ scan.pc = "done"
    /\ scan.quote = Quote(QuoteError, 0)
    /\ scan.err = Nil
    /\ Len(scan.returned) = 1
    /\ \E id \in DOMAIN items :
          /\ id # scan.returned[1].ID
          /\ items[id].Status = WatchStatusActive
          /\ ~Expired(items[id], clock)

-----------------------------------------------------------------------------
(* C24 *)

\* ExecuteWatchlistItems is running, on the items ScanWatchlist returned
Executing == mon.pc \in {"execute", "store"}

\* the SubmitOrder call the claim asks for item
ClaimedSubmit(item) ==
    [op |-> "SubmitOrder", symbol |-> item.Symbol,
     quantity |-> item.Quantity, price |-> 0, type |-> OrderTypeMarket,
     side |-> IF item.IsBuyList THEN OrderSideBuy ELSE OrderSideSell]

\* C24: ExecuteWatchlistItems takes the items it is given one after another
\* and calls SubmitOrder once for each: a market order of the item's
\* quantity on the item's symbol, on the buy side for a buy-list item and on
\* the sell side for a sell-list item.  An error of SubmitOrder adds one
\* error to the errors and any other return adds none; in both cases the
\* call goes on with the next item.  It returns when it has submitted every
\* item, with the errors it has collected.
C24_Execute ==
    /\ [](Executing =>
            LET given == scan.returned
                k     == Len(mon.submitted)
                done  == IF mon.pc = "store" THEN k - 1 ELSE k
            IN  /\ k <= Len(given)
                /\ \A i \in 1..k : mon.submitted[i] = ClaimedSubmit(given[i])
                /\ mon.triggeredItems = SubSeq(given, done + 1, Len(given))
                /\ Len(mon.errors) <= done)
    /\ [][ /\ (mon.pc = "execute" /\ mon'.pc = "store")
                 => /\ Len(mon'.submitted) = Len(mon.submitted) + 1
                    /\ mon'.errors = mon.errors
           /\ (mon.pc = "store" /\ mon'.pc = "execute")
                 => /\ mon'.submitted = mon.submitted
                    /\ mon'.errors =
                          IF mon.err # Nil
                          THEN Append(mon.errors,
                                      <<Head(mon.triggeredItems).Symbol,
                                        mon.err>>)
                          ELSE mon.errors
           /\ (mon.pc = "execute" /\ mon'.pc = "select")
                 => /\ Len(mon.submitted) = Len(scan.returned)
                    /\ mon'.returned = mon.errors
         ]_vars

\* ExecuteWatchlistItems was given two items and has returned: it has called
\* SubmitOrder twice, the first call failed and the second did not, and it
\* has returned the one error
C24_Witness ==
    /\ mon.pc = "select"
    /\ Len(scan.returned) = 2
    /\ Len(mon.submitted) = 2
    /\ mon.submitted[1].side # mon.submitted[2].side
    /\ Len(mon.returned) = 1
    /\ mon.returned[1][1] = scan.returned[1].Symbol
    /\ scan.returned[2].ID \in DOMAIN items
    /\ items[scan.returned[2].ID].OrderID # NoOrder.ID

-----------------------------------------------------------------------------
(* C25 *)

\* ExecuteWatchlistItems ends its turn for the item it, the first of those
\* it has still to execute, in this step
Executed(it) ==
    /\ mon.pc = "store"
    /\ mon'.pc = "execute"
    /\ it = Head(mon.triggeredItems)

\* every stored item with an OrderID is a triggered item, and its OrderID
\* names an order of the engine
OrderIDsOfTriggered ==
    \A id \in DOMAIN items :
       items[id].OrderID # NoOrder.ID
       => /\ items[id].Status = WatchStatusTriggered
          /\ items[id].OrderID \in DOMAIN orders

\* C25 as stated, of every attempt: once ExecuteWatchlistItems has ended its
\* turn for a triggered item, the stored item carries a non-empty OrderID
\* that names an order of the engine; and only triggered items carry one.
C25_OrderID_AnyAttempt ==
    /\ []OrderIDsOfTriggered
    /\ [][ \A i \in DOMAIN mon.triggeredItems :
              Executed(mon.triggeredItems[i])
              => LET id == mon.triggeredItems[i].ID
                 IN  /\ id \in DOMAIN items'
                     /\ items'[id].OrderID # NoOrder.ID
                     /\ items'[id].OrderID \in DOMAIN orders'
         ]_vars

\* C25: once ExecuteWatchlistItems has ended its turn for a triggered item
\* whose SubmitOrder call returned no error, the stored item is the triggered
\* item with the ID of the order returned, which is not empty and names an
\* order of the engine made for the item's symbol and quantity; after a call
\* that returned an error the stored items are as they were.  Only
\* triggered items carry an OrderID, and each names an order of the engine.
C25_OrderID ==
    /\ []OrderIDsOfTriggered
    /\ [][ \A i \in DOMAIN mon.triggeredItems :
              Executed(mon.triggeredItems[i])
              => LET it == mon.triggeredItems[i]
                 IN  IF mon.err = Nil
                     THEN /\ it.ID \in DOMAIN items'
                          /\ items'[it.ID] =
                                [it EXCEPT !.OrderID = mon.order.ID]
                          /\ it.Status = WatchStatusTriggered
                          /\ mon.order.ID # NoOrder.ID
                          /\ mon.order.ID \in DOMAIN orders'
                          /\ orders'[mon.order.ID].Symbol = it.Symbol
                          /\ orders'[mon.order.ID].Quantity = it.Quantity
                     ELSE items' = items
         ]_vars

\* ExecuteWatchlistItems has returned without an error and the item it was
\* given is stored as triggered with the ID of a filled order of the engine
C25_Witness ==
    /\ mon.pc = "select"
    /\ Len(mon.submitted) = 1
    /\ mon.returned = <<>>
    /\ \E id \in DOMAIN items :
          /\ items[id].Status = WatchStatusTriggered
          /\ items[id].OrderID \in DOMAIN orders
          /\ orders[items[id].OrderID].Status = OrderStatusFilled
          /\ orders[items[id].OrderID].Symbol = items[id].Symbol

-----------------------------------------------------------------------------
(* C26 *)

\* C26: StartWatchlistMonitor begins a cycle only by taking a tick from the
\* ticker, and a cycle is one ScanWatchlist call followed, when it returned
\* triggered items, by one ExecuteWatchlistItems call on them; after a cycle,
\* with or without errors of SubmitOrder, the monitor is back at its select.
\* It returns only from the select and only with its context cancelled, and
\* once it has returned it does nothing more.  A started monitor whose
\* context is cancelled returns in the end.
C26_Monitor ==
    /\ [][ /\ (mon.pc = "select" /\ mon'.pc = "scan")
                 => /\ mon.tick /\ ~mon'.tick
                    /\ scan'.pc = "check"
                    /\ scan'.activeItems = GetActiveItems(items)
           /\ mon'.pc = "scan" => mon.pc \in {"select", "scan"}
           /\ (mon.pc = "scan" /\ mon'.pc # "scan")
                 => /\ scan.pc = "done"
                    /\ IF scan.returned # <<>>
                       THEN /\ mon'.pc = "execute"
                            /\ mon'.triggeredItems = scan.returned
                       ELSE mon'.pc = "select"
           /\ (Executing /\ ~Executing')
                 => /\ mon'.pc = "select"
                    /\ mon.triggeredItems = <<>>
           /\ (~Executing /\ Executing') => mon.pc = "scan"
           /\ (mon.pc # "returned" /\ mon'.pc = "returned")
                 => mon.pc = "select" /\ mon.cancelled
           /\ mon.pc = "returned" => mon' = mon /\ scan'.pc = scan.pc
         ]_vars
    /\ ((mon.cancelled /\ mon.pc # "stopped") ~> (mon.pc = "returned"))

\* the monitor has run two cycles and has returned after its context was
\* cancelled: in the first the SubmitOrder call failed, and the scan of the
\* second returned no triggered item
C26_Witness ==
    /\ mon.pc = "returned"
    /\ mon.cancelled
    /\ mon.ticks = 2
    /\ ~mon.tick
    /\ scan.pc = "done"
    /\ scan.returned = <<>>
    /\ Len(mon.returned) = 1
    /\ orders = <<>>

-----------------------------------------------------------------------------
(* C27 *)

\* the goroutines of ScanMultipleSymbols whose ScanSymbol call is in flight
InFlight == {k \in DOMAIN sms.g : sms.g[k] = "scan"}

\* ScanMultipleSymbols has been called and has not returned
BatchRunning == sms.pc \in {"loop", "wait"}

\* the steps goroutine k of ScanMultipleSymbols has still to take, at most
StepsLeft(k) ==
    CASE sms.g[k] = "new"   -> 4
      [] sms.g[k] = "scan"  -> 3
      [] sms.g[k] = "lock"  -> 2
      [] sms.g[k] = "store" -> 1
      [] sms.g[k] = "done"  -> 0

RECURSIVE SumStepsLeft(_)
SumStepsLeft(n) == IF n = 0 THEN 0 ELSE StepsLeft(n) + SumStepsLeft(n - 1)

\* the steps the running call has still to take, at most
BatchStepsLeft ==
    SumStepsLeft(Len(sms.symbols))
       + (CASE sms.pc = "loop" -> 2 [] sms.pc = "wait" -> 1 [] OTHER -> 0)

\* C27: ScanMultipleSymbols never has more than 10 ScanSymbol calls in
\* flight, and it terminates when every ScanSymbol call returns: a running
\* call can always take a step (the loop, a goroutine at the return of its
\* ScanSymbol call, at the mutex or at its store, or the return after
\* wg.Wait()), and each of its steps brings it nearer to its return.
C27_Pool ==
    /\ [](/\ Cardinality(InFlight) <= 10
          /\ BatchRunning => ENABLED BatchSteps)
    /\ [][BatchRunning => BatchStepsLeft' < BatchStepsLeft]_vars

\* a call with eleven symbols has ten ScanSymbol calls in flight and its
\* loop waits for a slot
C27_Witness ==
    /\ sms.pc = "loop"
    /\ Len(sms.symbols) > 10
    /\ sms.i = 10
    /\ Cardinality(InFlight) = 10
    /\ sms.workers = 10

-----------------------------------------------------------------------------
(* C28 *)

\* the symbols of the running call whose scan has the outcome o
SymbolsOf(o) ==
    {sms.symbols[k] : k \in {j \in DOMAIN sms.symbols : sms.outcome[j] = o}}

\* C28: when ScanMultipleSymbols returns, the goroutine of every symbol has
\* run to its end, whatever the other scans returned; the error returned is
\* not nil if and only if the scan of at least one symbol failed; and the
\* map returned has an entry for exactly the symbols whose scan returned at
\* least one result, holding that result.  The map is written only by the
\* goroutine that holds the mutex, which one goroutine holds at a time.
C28_Isolation ==
    /\ [](/\ sms.pc = "returned"
             => /\ \A k \in DOMAIN sms.g : sms.g[k] = "done"
                /\ (sms.err # Nil) <=> (SymbolsOf(ScanError) # {})
                /\ DOMAIN sms.results = SymbolsOf(ScanSignals)
                /\ \A x \in DOMAIN sms.results : sms.results[x] = ScanSignals
          /\ \A k \in DOMAIN sms.g : (sms.g[k] = "store") <=> (sms.mu = k))
    /\ [][sms'.results # sms.results /\ sms'.pc = sms.pc
            => /\ sms.mu # 0
               /\ sms.g[sms.mu] = "store"
               /\ sms'.g[sms.mu] = "done"
               /\ DOMAIN sms'.results =
                     DOMAIN sms.results \cup {sms.symbols[sms.mu]}
         ]_vars

\* a call with three symbols has returned: one scan failed, one returned
\* nothing and one returned results; the call returns the error and a map
\* with the one entry
C28_Witness ==
    /\ sms.pc = "returned"
    /\ Len(sms.symbols) = 3
    /\ SymbolsOf(ScanError) # {}
    /\ SymbolsOf(ScanNothing) # {}
    /\ sms.err # Nil
    /\ Cardinality(DOMAIN sms.results) = 1

-----------------------------------------------------------------------------
(* C29 *)

\* the positions in e.trades of the trades in the window of the last call
InWindow ==
    {i \in DOMAIN trades :
        /\ trades[i].OpenedAt > calc.startTime
        /\ trades[i].ClosedAt < calc.endTime}

Winners == {i \in InWindow : trades[i].RealizedPnL.n > 0}
Losers  == {i \in InWindow : trades[i].RealizedPnL.n < 0}

\* the sum of the realized profits of the trades at the positions I
RECURSIVE SumPnL(_)
SumPnL(I) ==
    IF I = {}
    THEN F(0)
    ELSE LET i == CHOOSE j \in I : TRUE
         IN  FAdd(trades[i].RealizedPnL, SumPnL(I \ {i}))

\* C29: GetTradeStats carries out no division by zero.  Over a window with
\* no trade it returns the zero record and a nil error.  With trades in the
\* window, WinRate is the number of winning trades over the number of trades
\* in the window; AverageProfit is the mean profit of the winning trades if
\* there is one and zero otherwise, AverageLoss the mean absolute loss of the
\* losing trades if there is one and zero otherwise; ProfitFactor is the sum
\* of the profits over the sum of the absolute losses, and zero when no
\* trade of the window lost.
C29_TradeStats ==
    calc.op = "GetTradeStats" =>
        LET st == calc.stats
            nw == Cardinality(Winners)
            nl == Cardinality(Losers)
            sumLoss == FSub(F(0), SumPnL(Losers))
        IN  /\ \A d \in calc.divisors : d.n # 0
            /\ calc.err = Nil
            /\ InWindow = {} => st = ZeroStats
            /\ InWindow # {} =>
                /\ st.TotalTrades = Cardinality(InWindow)
                /\ st.WinningTrades = nw
                /\ st.LosingTrades = nl
                /\ FMul(st.WinRate, F(Cardinality(InWindow))) = F(nw)
                /\ FMul(st.AverageProfit, F(nw)) = SumPnL(Winners)
                /\ FMul(st.AverageLoss, F(nl)) = sumLoss
                /\ nw = 0 => st.AverageProfit = F(0)
                /\ nl = 0 => st.AverageLoss = F(0) /\ st.ProfitFactor = F(0)
                /\ nl > 0 => FMul(st.ProfitFactor, sumLoss) = SumPnL(Winners)

\* GetTradeStats has returned the statistics of a window that holds a
\* winning, a losing and a flat trade: one trade in three won
C29_Witness ==
    /\ calc.op = "GetTradeStats"
    /\ Winners # {}
    /\ Losers # {}
    /\ InWindow \ (Winners \cup Losers) # {}
    /\ calc.stats.WinRate = Rat(1, 3)

-----------------------------------------------------------------------------
(* C30 *)

\* the signalPeriod EMA of the MACD line of the last call that ends at index
\* i of the program (position i + 1 here), for i >= slowPeriod+signalPeriod-2:
\* the mean of the first signalPeriod values of the MACD line from index
\* slowPeriod-1 on, and macd[i]*k + EMA[i-1]*(1-k) after it
RECURSIVE SignalEMA(_)
SignalEMA(i) ==
    LET k == Rat(2, calc.signalPeriod + 1)
        first == calc.slowPeriod + calc.signalPeriod - 2
    IN  IF i = first
        THEN FDiv(SumSeq(SubSeq(calc.macd, calc.slowPeriod, first + 1)),
                  F(calc.signalPeriod))
        ELSE FAdd(FMul(calc.macd[i + 1], k),
                  FMul(SignalEMA(i - 1), FSub(F(1), k)))

\* C30: Calculate fails on fewer than slowPeriod+signalPeriod bars.  On n
\* bars, n >= slowPeriod+signalPeriod, the macd, signal and histogram series
\* have length n each; the signal value at index i is zero for
\* i < slowPeriod+signalPeriod-2 and is, from that index on, the signalPeriod
\* EMA of the MACD line ending at the same index i, the last value on
\* exactly slowPeriod+signalPeriod bars included.
C30_MACD ==
    calc.op = "MACD" =>
        LET n == Len(calc.prices)
            first == calc.slowPeriod + calc.signalPeriod - 2
        IN  /\ n < calc.slowPeriod + calc.signalPeriod => calc.err # Nil
            /\ n >= calc.slowPeriod + calc.signalPeriod =>
                /\ calc.err = Nil
                /\ Len(calc.macd) = n
                /\ Len(calc.signal) = n
                /\ Len(calc.histogram) = n
                /\ \A i \in 0..(n - 1) :
                      calc.signal[i + 1] =
                          IF i < first THEN F(0) ELSE SignalEMA(i)

-----------------------------------------------------------------------------
(* C31 *)

\* the Type a method of the trade logger gives its entry
TypeOf(method) ==
    IF method = "LogBuy" THEN TypeBuy
    ELSE IF method = "LogSell" THEN TypeSell
    ELSE TypePosition

\* the day of the entry of a call: the day of its Timestamp, and the day of
\* the call for an entry without one
DayOf(c) == IF c.entry.Timestamp = ZeroDay THEN c.now ELSE c.entry.Timestamp

\* the entries of the calls made so far that returned no error and fall on
\* date, in the order of the calls
LoggedOn(date) ==
    LET on == SelectSeq(tl.calls, LAMBDA c : c.err = Nil /\ DayOf(c) = date)
    IN  [i \in 1..Len(on) |->
            [on[i].entry EXCEPT !.Type = TypeOf(on[i].method),
                                !.Timestamp = DayOf(on[i])]]

\* C31: after any sequence of LogBuy, LogSell and LogPosition calls,
\* GetDailyLogs(d) returns exactly the entries of the calls with a timestamp
\* on day d, in the order in which they were logged, each with the Type of
\* the method that logged it and with its Symbol as it was given.
C31_RoundTrip ==
    tl.last.op = "GetDailyLogs" =>
        /\ tl.last.err = Nil
        /\ tl.last.entries = LoggedOn(tl.last.date)

\* GetDailyLogs has returned two entries logged by different methods, one of
\* them with a line feed in its Symbol, after an entry of another day was
\* logged between them
C31_Witness ==
    /\ tl.last.op = "GetDailyLogs"
    /\ Len(tl.last.entries) = 2
    /\ tl.last.entries[1].Type # tl.last.entries[2].Type
    /\ \E i \in 1..2 : tl.last.entries[i].Symbol = <<"A", "\n">>
    /\ Len(tl.calls) = 3
    /\ DayOf(tl.calls[2]) # tl.last.date

-----------------------------------------------------------------------------
(* C32 *)

\* C32: every open position has Cost = Quantity * EntryPrice, after any
\* sequence of filled buys and sells; after a partial sell and a further buy
\* EntryPrice is then the weighted average price of the shares still held.
C32_CostBasis ==
    \A s \in DOMAIN positions :
        positions[s].Cost =
            FMul(F(positions[s].Quantity), positions[s].EntryPrice)

-----------------------------------------------------------------------------
(* C33 *)

\* the sum of RealizedPnL over the trades T
RECURSIVE SumRealized(_)
SumRealized(T) ==
    IF T = <<>> THEN F(0)
    ELSE FAdd(Head(T).RealizedPnL, SumRealized(Tail(T)))

\* C33: whenever no position is open, the RealizedPnL of the account is the
\* sum of RealizedPnL over the recorded trades, also when a position was
\* closed by several partial sells.
C33_RealizedAgree ==
    DOMAIN positions = {} => account.RealizedPnL = SumRealized(trades)

-----------------------------------------------------------------------------
(* C34 *)

\* C34: a filled sell of SubmitOrder realizes profit on no more shares than
\* the position held immediately before the fill, and the Quantity of a
\* Trade appended at the close is no more than the shares then held.
C34_NoOverSell ==
    [][\A s \in DOMAIN positions :
          Fill(s) /\ last'.order.Side = OrderSideSell =>
              /\ last'.order.FilledQty <= positions[s].Quantity
              /\ Len(trades') > Len(trades) =>
                    trades'[Len(trades')].Quantity <= positions[s].Quantity
      ]_vars

-----------------------------------------------------------------------------
(* C35 *)

\* C35: the sell that ClosePosition submits is measured against the position
\* as it is when the sell is stored and filled: the position exists then, and
\* the sell of a call asking for the whole position is for the quantity then
\* held, whatever other calls ran in between.
C35_CloseAtFill ==
    [][\A t \in Threads :
          /\ SubmitReturns(t)
          /\ call[t].op = "ClosePosition"
          /\ last'.err = Nil
          => /\ call[t].symbol \in DOMAIN positions
             /\ call[t].quantity = positions[call[t].symbol].Quantity
      ]_vars

-----------------------------------------------------------------------------
(* C36 *)

\* C36: the engine starts disabled, and an order is added to the order store
\* or changed in it only in a state in which enabled is true, in every
\* interleaving of SubmitOrder and CancelOrder with Enable and Disable.
C36_OnlyWhenEnabled ==
    /\ ~enabled
    /\ [][orders' # orders => enabled]_vars

-----------------------------------------------------------------------------
(* C37 *)

-----------------------------------------------------------------------------
(* C38 *)

\* the running ScanWatchlist call writes one of its updated items back
ScanWritesBack ==
    /\ scan.pc = "store"
    /\ scan.updatedItems # <<>>
    /\ scan'.updatedItems = Tail(scan.updatedItems)

\* C38: a ScanWatchlist call that writes back its results does not put back
\* an item that RemoveItem has removed while the call was running: an ID
\* that is not on the watchlist gets on it by AddItem only, never by the
\* write-back of a scan.
C38_NoReinsert ==
    [][ScanWritesBack => DOMAIN items' \subseteq DOMAIN items]_vars

-----------------------------------------------------------------------------
(* C39 *)

\* the IDs of the items of a list
ItemIDs(list) == {list[i].ID : i \in DOMAIN list}

\* the IDs of the items of the SubmitOrder calls of the monitor's running
\* ExecuteWatchlistItems: the items it was given less those it has still to
\* execute, and the one at hand once its SubmitOrder call has returned
MonitorSubmittedIDs ==
    IF mon.pc \notin {"execute", "store"} THEN {}
    ELSE LET given == ItemIDs(scan.returned)
             todo  == ItemIDs(mon.triggeredItems)
         IN  (given \ todo)
                \cup (IF mon.pc = "store"
                      THEN {Head(mon.triggeredItems).ID} ELSE {})

\* C39: on a watchlist that gets each item once, no item is returned as
\* triggered both by the scan of the monitor and by the scan of a goroutine
\* that calls ScanWatchlist and ExecuteWatchlistItems beside it, and no item
\* is the item of a SubmitOrder call of both
C39_OneOrderPerItem ==
    /\ (scan.pc = "done" /\ direct.scan.pc = "done")
          => ItemIDs(scan.returned) \cap ItemIDs(direct.scan.returned) = {}
    /\ MonitorSubmittedIDs \cap {direct.submitted[i] :
                                    i \in DOMAIN direct.submitted} = {}

-----------------------------------------------------------------------------
(* C40 *)

\* a ScanSymbol call of the running ScanMultipleSymbols takes a step
ScanSymbolStep ==
    /\ sms.pc \in {"loop", "wait"}
    /\ sms'.ss # sms.ss

\* C40: no step of a ScanSymbol call changes a stored strategy: the weights
\* of its indicators are after the scan what they were before, also when all
\* of them are zero, and the goroutines of ScanMultipleSymbols write nothing
\* of the strategy they share.
C40_StrategyKept ==
    [][ScanSymbolStep => strategies' = strategies]_vars

====
